---- MODULE Spec2Model ----
(***************************************************************************)
(* State-machine models of the bot programs of the repository: the         *)
(* serverless webhook handler, the update de-duplication snippet, the      *)
(* manual polling loop, the in-memory session map with its timeout and     *)
(* escape handlers, the conversation FSM, the Wizard, the stateless        *)
(* session manager and the flood-wait handler.  Every program has its own  *)
(* specification (SpecWizard, SpecFSM, ...) over the shared variables; the  *)
(* variables a program does not use keep their initial values.             *)
(***************************************************************************)
EXTENDS Integers, Sequences, FiniteSets, TLC

VARIABLES
  now,        \* Date.now(), in clock ticks
  sessions,   \* the in-memory Map userId -> session object
  sent,       \* bot.sendMessage calls made while the current message is handled
  wz,         \* the Wizard's message dispatch: position and handler locals
  fsm,        \* the FSM message handler: position and handler locals
  webhook,    \* the webhook function: the request being served, its response,
              \* and the update ids the platform got a 200 for
  poller,     \* the manual polling loop: offset, batch, position, and the
              \* updates the server holds
  dedup,      \* the duplicate filter: lastProcessed and the updates let through
  tmo,        \* the session-timeout message handler: what it did last
  store,      \* the stateless session manager: the Redis keys and the
              \* callers' positions and locals
  flood,      \* the flood wait handler: waitUntil and the calls of execute
  rq,         \* the retry queue: its items, the one being sent, the timers
  adm,        \* the admin-only commands: the message being dispatched and the handlers run
  menu,       \* the command lists set per scope with setMyCommands, in call order
  botjs,      \* the node bot: the order its handlers were registered in, the message dispatched
  reg,        \* the ConversationFSM handlers Map as on() builds it
  conc,       \* the FSM message handler run for overlapping messages of a user over Redis
  outage,     \* the session code with Redis failing
  bucket,     \* the token bucket rate limiter
  lim,        \* the rate limiters rateLimit and slidingWindowLimit
  ban,        \* the ban system: bannedUsers, db.bans, the calls under way
  cb,         \* the circuit breaker: state, failures, lastFailure, the calls of execute
  wr,         \* withRetry / withExponentialBackoff: the attempt, the calls of fn, how it ended
  bc          \* the broadcast: its record, the send jobs, the users marked blocked

\* The variables of the programs that keep no in-memory session
outside == <<webhook, poller, dedup, store, flood, rq, adm, menu, botjs, reg, conc, outage, bucket, lim, ban, cb, wr, bc>>

\* The variables of the programs that keep in-memory sessions
conversation == <<sessions, wz, fsm, tmo>>

vars == <<now, sessions, sent, wz, fsm, webhook, poller, dedup, tmo, store, flood, rq, adm, menu, botjs, reg, conc, outage, bucket, lim, ban, cb, wr, bc>>

(***************************************************************************)
(* Message texts.  A text is the sequence of its characters, so that       *)
(* parseInt, String.length and the regular expressions are computed.       *)
(***************************************************************************)
T_order    == <<"/", "o", "r", "d", "e", "r">>
T_cancel   == <<"/", "c", "a", "n", "c", "e", "l">>
T_back     == <<"/", "b", "a", "c", "k">>
T_register == <<"/", "r", "e", "g", "i", "s", "t", "e", "r">>
T_widget   == <<"W", "i", "d", "g", "e", "t">>
T_abc      == <<"a", "b", "c">>
T_3        == <<"3">>
T_0        == <<"0">>
T_150      == <<"1", "5", "0">>
T_7order   == <<"7", " ", "/", "o", "r", "d", "e", "r">>
T_home     == <<"h", "o", "m", "e">>
T_street   == <<"1", "2", " ", "M", "a", "i", "n", " ", "S", "t", "r", "e", "e", "t">>

\* A JavaScript value as the handlers see it: a string, a number or undefined.
VStr(s) == [kind |-> "str", s |-> s, n |-> 0]

VInt(n) == [kind |-> "int", s |-> <<>>, n |-> n]

VUndef == [kind |-> "undef", s |-> <<>>, n |-> 0]

Digits == {"0", "1", "2", "3", "4", "5", "6", "7", "8", "9"}

DigitVal(c) ==
  CASE c = "0" -> 0 [] c = "1" -> 1 [] c = "2" -> 2 [] c = "3" -> 3
    [] c = "4" -> 4 [] c = "5" -> 5 [] c = "6" -> 6 [] c = "7" -> 7
    [] c = "8" -> 8 [] c = "9" -> 9

RECURSIVE SkipSpaces(_, _)
SkipSpaces(s, i) ==
  IF i <= Len(s) /\ s[i] = " " THEN SkipSpaces(s, i + 1) ELSE i

RECURSIVE DigitRun(_, _, _)
\* The value of the longest run of digits of s that starts at i, from acc.
DigitRun(s, i, acc) ==
  IF i <= Len(s) /\ s[i] \in Digits
    THEN DigitRun(s, i + 1, acc * 10 + DigitVal(s[i]))
    ELSE acc

NaN == [nan |-> TRUE, n |-> 0]

\* parseInt(v): leading blanks skipped, an optional sign, then the longest
\* digit prefix; NaN when there is no digit there (and for undefined).
ParseInt(v) ==
  IF v.kind = "int" THEN [nan |-> FALSE, n |-> v.n]
  ELSE IF v.kind = "undef" THEN NaN
  ELSE LET s == v.s
           i == SkipSpaces(s, 1)
           neg == i <= Len(s) /\ s[i] = "-"
           j == IF i <= Len(s) /\ s[i] \in {"-", "+"} THEN i + 1 ELSE i
       IN IF j <= Len(s) /\ s[j] \in Digits
            THEN [nan |-> FALSE,
                  n |-> IF neg THEN 0 - DigitRun(s, j, 0) ELSE DigitRun(s, j, 0)]
            ELSE NaN

\* An unanchored regular expression made of literal characters: pat occurs in s.
Contains(s, pat) ==
  \E i \in 1..(Len(s) - Len(pat) + 1) : SubSeq(s, i, i + Len(pat) - 1) = pat

\* /\/order/.test(msg.text), as bot.onText applies it (only to text messages).
MatchesOrder(v) == v.kind = "str" /\ Contains(v.s, T_order)

(***************************************************************************)
(* In-memory sessions.                                                     *)
(***************************************************************************)
Users == {"u1"}

EmptyData == [f \in {} |-> VUndef]

\* obj[field] = value
SetField(d, field, value) ==
  [f \in (DOMAIN d) \cup {field} |-> IF f = field THEN value ELSE d[f]]

\* obj[field], undefined when the object has no such property
GetField(d, field) == IF field \in DOMAIN d THEN d[field] ELSE VUndef

\* session.wizard is absent (never set, or deleted)
NoWizard == [present |-> FALSE, name |-> "", step |-> 0, data |-> EmptyData]

\* The object getSession stores for a user it has not seen.
NewSession(t) ==
  [state |-> "idle", data |-> EmptyData, lastActivity |-> t,
   previousState |-> "", wizard |-> NoWizard]

\* getSession(userId): the Map after the call (an absent user gets an entry)
SessionsAfterGet(ss, u, t) ==
  IF u \in DOMAIN ss THEN ss
  ELSE [x \in (DOMAIN ss) \cup {u} |-> IF x = u THEN NewSession(t) ELSE ss[x]]

\* getSession(userId): the object returned
GetSession(ss, u, t) == SessionsAfterGet(ss, u, t)[u]

\* saveSession(userId, session): the session is stored with a fresh lastActivity
SaveSession(ss, u, s, t) ==
  [x \in (DOMAIN ss) \cup {u} |->
     IF x = u THEN [s EXCEPT !.lastActivity = t] ELSE ss[x]]

\* clearSession(userId)
ClearSession(ss, u) == [x \in (DOMAIN ss) \ {u} |-> ss[x]]

NoSessions == [x \in {} |-> NewSession(0)]

(***************************************************************************)
(* The Wizard and the order wizard built from it.                          *)
(***************************************************************************)
\* What bot.sendMessage is given: the kind of message, its fixed text, the
\* value interpolated into a prompt and the data a completion message shows.
Message(kind, text, about, data) ==
  [kind |-> kind, text |-> text, about |-> about, data |-> data]

\* orderWizard's steps, by their field (the step names equal the fields)
OrderSteps == <<"product", "quantity", "address">>

\* steps[k].field, k counted from 0 as session.wizard.step is
StepField(k) == OrderSteps[k + 1]

MaxItems == 100

MinAddressLength == 10

\* steps[k].validate(input, data): "true", the error message, or "throw" when
\* the validator raises (input.length of a message without text).
Validate(k, input, data) ==
  CASE StepField(k) = "product" -> "true"
    [] StepField(k) = "quantity" ->
         LET num == ParseInt(input)
         IN IF num.nan \/ num.n < 1 THEN "Please enter a valid number"
            ELSE IF num.n > MaxItems THEN "Maximum 100 items"
            ELSE "true"
    [] StepField(k) = "address" ->
         IF input.kind # "str" THEN "throw"
         ELSE IF Len(input.s) > MinAddressLength THEN "true"
         ELSE "Address too short"

\* A faulty variant of Transform: the step's transform is not applied
Transform_Identity(k, input) == input

\* steps[k].transform(input)
Transform(k, input) ==
  IF StepField(k) = "quantity" THEN VInt(ParseInt(input).n) ELSE input

\* steps[k].prompt, applied to the collected data when it is a function
Prompt(k, data) ==
  CASE StepField(k) = "product" ->
         Message("prompt", "What product do you want to order?", VUndef, EmptyData)
    [] StepField(k) = "quantity" ->
         Message("prompt", "How many ... do you want?", GetField(data, "product"),
                 EmptyData)
    [] StepField(k) = "address" ->
         Message("prompt", "What is your delivery address?", VUndef, EmptyData)

\* orderWizard.onComplete's message
OrderPlaced(data) == Message("complete", "Order placed!", VUndef, data)

\* The texts users send to the order wizard; VUndef is a message without text.
WizardInputs ==
  {VStr(T_order), VStr(T_widget), VStr(T_abc), VStr(T_3), VStr(T_0), VStr(T_150),
   VStr(T_7order), VStr(T_home), VStr(T_street), VStr(T_cancel), VStr(T_back),
   VUndef}

WizardIdle ==
  [pc |-> "idle", user |-> "u1", msg |-> VUndef, pending |-> FALSE,
   step |-> 0, validation |-> ""]

WizardOff == [WizardIdle EXCEPT !.pc = "off"]

\* A faulty variant of InputAccepted: the result is tested for truthiness
\* (if (!validation)), and an error message is a truthy string.
InputAccepted_Truthy(validation) == validation # ""

\* validation !== true fails: the validator accepted the input
InputAccepted(validation) == validation = "true"

\* A message arrives: the library emits 'message' (handleInput) and then runs
\* the onText callbacks whose regular expression matches.
WizardReceive(u, v) ==
  /\ wz.pc = "idle"
  /\ wz' = [WizardIdle EXCEPT !.pc = "handleInput", !.user = u, !.msg = v]
  /\ sent' = <<>>
  /\ UNCHANGED <<now, sessions, fsm, tmo>>
  /\ UNCHANGED outside

\* Wizard.handleInput up to its first await: the session is read, the current
\* step chosen and its validator called.
HandleInputBegin ==
  /\ wz.pc = "handleInput"
  /\ LET s == GetSession(sessions, wz.user, now)
         active == s.wizard.present /\ s.wizard.name = "order"
         v == IF active THEN Validate(s.wizard.step, wz.msg, s.wizard.data) ELSE ""
         pending == active /\ v # "throw"
     IN /\ sessions' = SessionsAfterGet(sessions, wz.user, now)
        /\ wz' = [wz EXCEPT !.pending = pending,
                            !.step = IF active THEN s.wizard.step ELSE 0,
                            !.validation = v,
                            !.pc = IF MatchesOrder(wz.msg) THEN "onText"
                                   ELSE IF pending THEN "resume" ELSE "idle"]
  /\ UNCHANGED <<now, sent, fsm, tmo>>
  /\ UNCHANGED outside

\* A faulty variant of WizardStart: the data of a wizard under way is kept
WizardStart_KeepsData ==
  /\ wz.pc = "onText"
  /\ LET s == GetSession(sessions, wz.user, now)
         w == [present |-> TRUE, name |-> "order", step |-> 0, data |-> s.wizard.data]
     IN /\ sessions' = SaveSession(sessions, wz.user, [s EXCEPT !.wizard = w], now)
        /\ sent' = Append(sent, Prompt(0, EmptyData))
  /\ wz' = [wz EXCEPT !.pc = IF wz.pending THEN "resume" ELSE "idle"]
  /\ UNCHANGED <<now, fsm, tmo>>
  /\ UNCHANGED outside

\* Wizard.start with promptCurrentStep, run by bot.onText(/\/order/)
WizardStart ==
  /\ wz.pc = "onText"
  /\ LET s == GetSession(sessions, wz.user, now)
         w == [present |-> TRUE, name |-> "order", step |-> 0, data |-> EmptyData]
     IN /\ sessions' = SaveSession(sessions, wz.user, [s EXCEPT !.wizard = w], now)
        /\ sent' = Append(sent, Prompt(0, EmptyData))
  /\ wz' = [wz EXCEPT !.pc = IF wz.pending THEN "resume" ELSE "idle"]
  /\ UNCHANGED <<now, fsm, tmo>>
  /\ UNCHANGED outside

\* Wizard.handleInput after the validator's result arrived: the error message,
\* or the value stored, the step advanced and the next prompt or the completion.
HandleInputEnd ==
  /\ wz.pc = "resume"
  /\ LET s == sessions[wz.user]
         data == SetField(s.wizard.data, StepField(wz.step),
                          Transform(wz.step, wz.msg))
         next == s.wizard.step + 1
     IN IF ~InputAccepted(wz.validation)
          THEN /\ sent' = Append(sent, Message("error", wz.validation, VUndef, EmptyData))
               /\ UNCHANGED sessions
          ELSE IF next >= Len(OrderSteps)
            THEN /\ sessions' = SaveSession(sessions, wz.user,
                                            [s EXCEPT !.wizard = NoWizard], now)
                 /\ sent' = Append(sent, OrderPlaced(data))
            ELSE /\ sessions' = SaveSession(sessions, wz.user,
                       [s EXCEPT !.wizard = [@ EXCEPT !.step = next, !.data = data]],
                       now)
                 /\ sent' = Append(sent, Prompt(next, data))
  /\ wz' = [wz EXCEPT !.pc = "idle"]
  /\ UNCHANGED <<now, fsm, tmo>>
  /\ UNCHANGED outside

(***************************************************************************)
(* The conversation FSM and the registration FSM built from it.            *)
(***************************************************************************)
T_ann   == <<"A", "n", "n">>
T_email == <<"a", "@", "b", ".", "c">>
T_noTld == <<"a", "@", "b">>

\* [^\s@]+ matches s[lo..hi]: not empty, no blank and no @ in it
NoBlankNoAt(s, lo, hi) ==
  lo <= hi /\ \A k \in lo..hi : s[k] \notin {" ", "@"}

\* /^[^\s@]+@[^\s@]+\.[^\s@]+$/.test(v); test() of undefined reads "undefined"
IsValidEmail(v) ==
  /\ v.kind = "str"
  /\ \E i \in 1..Len(v.s), j \in 1..Len(v.s) :
       /\ i < j
       /\ v.s[i] = "@"
       /\ v.s[j] = "."
       /\ NoBlankNoAt(v.s, 1, i - 1)
       /\ NoBlankNoAt(v.s, i + 1, j - 1)
       /\ NoBlankNoAt(v.s, j + 1, Len(v.s))

\* What a state handler returns: {nextState, data}, either of them optional,
\* or nothing at all (undefined).
Result(defined, nextState, hasData, data) ==
  [defined |-> defined, nextState |-> nextState, hasData |-> hasData, data |-> data]

NoResult == Result(FALSE, "", FALSE, EmptyData)

\* The states registrationFSM registers a handler for with on()
HandledStates == {"idle", "awaiting_name", "awaiting_email"}

\* The handler registered for the state: the message it sends (none: <<>>)
\* and the result it returns.
StateHandler(state, session, v) ==
  CASE state = "idle" ->
         IF v = VStr(T_register)
           THEN [out |-> <<Message("prompt", "What is your name?", VUndef, EmptyData)>>,
                 result |-> Result(TRUE, "awaiting_name", FALSE, EmptyData)]
           ELSE [out |-> <<>>, result |-> NoResult]
    [] state = "awaiting_name" ->
         IF v = VStr(T_cancel)
           THEN [out |-> <<Message("info", "Cancelled", VUndef, EmptyData)>>,
                 result |-> Result(TRUE, "idle", TRUE, EmptyData)]
           ELSE [out |-> <<Message("prompt", "Nice, ...! What is your email?", v,
                                   EmptyData)>>,
                 result |-> Result(TRUE, "awaiting_email", TRUE,
                                   SetField(EmptyData, "name", v))]
    [] state = "awaiting_email" ->
         IF ~IsValidEmail(v)
           THEN [out |-> <<Message("error", "Invalid email. Try again:", VUndef,
                                   EmptyData)>>,
                 result |-> Result(TRUE, "", FALSE, EmptyData)]
           ELSE [out |-> <<Message("confirm", "Confirm:", v,
                                   SetField(EmptyData, "name",
                                            GetField(session.data, "name")))>>,
                 result |-> Result(TRUE, "awaiting_confirm", TRUE,
                                   SetField(EmptyData, "email", v))]

\* Object.assign(target, source)
Assign(target, source) ==
  [f \in (DOMAIN target) \cup (DOMAIN source) |->
     IF f \in DOMAIN source THEN source[f] ELSE target[f]]

\* ConversationFSM.process after the handler returned: the session it leaves
ApplyResult(session, result) ==
  LET s1 == IF result.nextState # ""
              THEN [session EXCEPT !.state = result.nextState] ELSE session
  IN IF result.hasData THEN [s1 EXCEPT !.data = Assign(@, result.data)] ELSE s1

FsmInputs ==
  {VStr(T_register), VStr(T_cancel), VStr(T_back), VStr(T_ann), VStr(T_abc),
   VStr(T_email), VStr(T_noTld), VUndef}

FsmIdle == [pc |-> "idle", user |-> "u1", msg |-> VUndef, result |-> NoResult,
            threw |-> FALSE]

FsmOff == [FsmIdle EXCEPT !.pc = "off"]

\* bot.on('message') of the FSM usage: a message arrives
FsmReceive(u, v) ==
  /\ fsm.pc = "idle"
  /\ fsm' = [FsmIdle EXCEPT !.pc = "process", !.user = u, !.msg = v]
  /\ sent' = <<>>
  /\ UNCHANGED <<now, sessions, wz, tmo>>
  /\ UNCHANGED outside

\* getSession, then process up to the handler's await of sendMessage: the
\* handler for session.state is looked up and run.  A state without a handler
\* is logged and process returns, after which the session is saved.
FsmProcess ==
  /\ fsm.pc = "process"
  /\ LET s == GetSession(sessions, fsm.user, now)
     IN IF s.state \notin HandledStates
          THEN /\ sessions' = SaveSession(SessionsAfterGet(sessions, fsm.user, now),
                                          fsm.user, s, now)
               /\ fsm' = [fsm EXCEPT !.pc = "idle"]
               /\ UNCHANGED sent
          ELSE LET h == StateHandler(s.state, s, fsm.msg)
               IN /\ sessions' = SessionsAfterGet(sessions, fsm.user, now)
                  /\ sent' = sent \o h.out
                  /\ fsm' = [fsm EXCEPT !.pc = "result", !.result = h.result]
  /\ UNCHANGED <<now, wz, tmo>>
  /\ UNCHANGED outside

\* process after the handler returned: result.nextState and result.data are
\* applied and the session is saved.  Reading result.nextState of a handler
\* that returned nothing raises, and the session is not saved.
FsmResult ==
  /\ fsm.pc = "result"
  /\ IF ~fsm.result.defined
       THEN /\ fsm' = [fsm EXCEPT !.pc = "idle", !.threw = TRUE]
            /\ UNCHANGED sessions
       ELSE /\ sessions' = SaveSession(sessions, fsm.user,
                                       ApplyResult(sessions[fsm.user], fsm.result), now)
            /\ fsm' = [fsm EXCEPT !.pc = "idle"]
  /\ UNCHANGED <<now, sent, wz, tmo>>
  /\ UNCHANGED outside

(***************************************************************************)
(* The serverless webhook function.                                         *)
(***************************************************************************)
T_start   == <<"/", "s", "t", "a", "r", "t">>
T_help    == <<"/", "h", "e", "l", "p">>
T_echoHi  == <<"/", "e", "c", "h", "o", " ", "h", "i">>
T_echoSp  == <<"/", "e", "c", "h", "o", " ">>
T_hi      == <<"h", "i">>
T_unknown == <<"/", "f", "o", "o">>

\* An update as the handler reads it: update.message (with its text),
\* update.callback_query (with its message and data).
Update(message, text, callback, cbMessage, cbData) ==
  [message |-> message, text |-> text, callback |-> callback,
   cbMessage |-> cbMessage, cbData |-> cbData]

\* The updates the platform holds for the bot; update_id is the position.
Updates ==
  << Update(TRUE, VStr(T_start), FALSE, FALSE, ""),
     Update(TRUE, VStr(T_help), FALSE, FALSE, ""),
     Update(TRUE, VStr(T_echoHi), FALSE, FALSE, ""),
     Update(TRUE, VStr(T_hi), FALSE, FALSE, ""),
     Update(TRUE, VStr(T_unknown), FALSE, FALSE, ""),
     Update(TRUE, VUndef, FALSE, FALSE, ""),
     Update(FALSE, VUndef, TRUE, TRUE, "button_clicked"),
     Update(FALSE, VUndef, TRUE, TRUE, "other"),
     Update(FALSE, VUndef, TRUE, FALSE, "button_clicked"),
     Update(FALSE, VUndef, FALSE, FALSE, ""),
     Update(TRUE, VStr(<<>>), FALSE, FALSE, ""),
     Update(TRUE, VStr(T_echoSp), FALSE, FALSE, "") >>

UpdateIds == 1..Len(Updates)

\* text.startsWith(prefix)
StartsWith(s, prefix) ==
  Len(s) >= Len(prefix) /\ SubSeq(s, 1, Len(prefix)) = prefix

\* text.replace('/echo ', ''), for a text that starts with '/echo '
EchoText(s) == SubSeq(s, Len(T_echoSp) + 1, Len(s))

\* text && ...: the text is there and not the empty string
TextGiven(text) == text.kind = "str" /\ text.s # <<>>

\* A faulty variant of MessageCalls: the last case does not test for '/'
MessageCalls_EchoesCommands(text) ==
  IF text = VStr(T_start)
    THEN <<Message("text", "Hello! Welcome to my bot!", VUndef, EmptyData)>>
  ELSE IF text = VStr(T_help)
    THEN <<Message("text", "Available commands:", VUndef, EmptyData)>>
  ELSE IF TextGiven(text) /\ StartsWith(text.s, T_echoSp)
    THEN <<Message("text", "You said: ", VStr(EchoText(text.s)), EmptyData)>>
  ELSE IF TextGiven(text)
    THEN <<Message("text", "You said: ", text, EmptyData)>>
  ELSE <<>>

\* The Bot API calls the message branch makes for update.message.text
MessageCalls(text) ==
  IF text = VStr(T_start)
    THEN <<Message("text", "Hello! Welcome to my bot!", VUndef, EmptyData)>>
  ELSE IF text = VStr(T_help)
    THEN <<Message("text", "Available commands:", VUndef, EmptyData)>>
  ELSE IF TextGiven(text) /\ StartsWith(text.s, T_echoSp)
    THEN <<Message("text", "You said: ", VStr(EchoText(text.s)), EmptyData)>>
  ELSE IF TextGiven(text) /\ ~StartsWith(text.s, <<"/">>)
    THEN <<Message("text", "You said: ", text, EmptyData)>>
  ELSE <<>>

\* The Bot API calls the callback branch makes for query.data
CallbackCalls(data) ==
  IF data = "button_clicked"
    THEN <<Message("answerCallbackQuery", "Button clicked!", VUndef, EmptyData),
           Message("text", "You clicked the button!", VUndef, EmptyData)>>
    ELSE <<>>

\* The Bot API calls the handler makes for an update when none of them fails,
\* and whether it raises on its own (query.message.chat of an absent message).
HandlerCalls(u) ==
  (IF u.message THEN MessageCalls(u.text) ELSE <<>>)
    \o (IF u.callback /\ u.cbMessage THEN CallbackCalls(u.cbData) ELSE <<>>)

HandlerRaises(u) == u.callback /\ ~u.cbMessage

Methods == {"POST", "GET"}

\* A faulty variant of MethodAllowed: the method is not looked at
MethodAllowed_Any(method) == TRUE

\* req.method !== 'POST' is answered 405
MethodAllowed(method) == method = "POST"

WebhookIdle ==
  [pc |-> "idle", method |-> "POST", id |-> 1, status |-> 0, acked |-> {}]

WebhookOff == [WebhookIdle EXCEPT !.pc = "off"]

\* The platform (or anyone) sends a request with update id as its body; an
\* update may be sent again, whether or not it has been answered 200.
WebhookRequest(method, id) ==
  /\ webhook.pc = "idle"
  /\ webhook' = [webhook EXCEPT !.pc = "handling", !.method = method, !.id = id,
                                !.status = 0]
  /\ sent' = <<>>
  /\ UNCHANGED <<now, poller, dedup, store, flood, rq, adm, menu, botjs, reg, conc, outage, bucket, lim, ban, cb, wr, bc>>
  /\ UNCHANGED conversation

\* module.exports: the handler runs to its response.  failAt = 0: no Bot API
\* call fails; failAt = k: the k-th call raises (the calls before it are made).
WebhookHandle(failAt) ==
  /\ webhook.pc = "handling"
  /\ LET u == Updates[webhook.id]
         calls == HandlerCalls(u)
     IN /\ failAt \in 0..Len(calls)
        /\ IF ~MethodAllowed(webhook.method)
             THEN /\ failAt = 0
                  /\ webhook' = [webhook EXCEPT !.pc = "idle", !.status = 405]
                  /\ UNCHANGED sent
             ELSE IF failAt > 0
               THEN /\ webhook' = [webhook EXCEPT !.pc = "idle", !.status = 500]
                    /\ sent' = SubSeq(calls, 1, failAt - 1)
             ELSE IF HandlerRaises(u)
               THEN /\ webhook' = [webhook EXCEPT !.pc = "idle", !.status = 500]
                    /\ sent' = calls
             ELSE /\ webhook' = [webhook EXCEPT !.pc = "idle", !.status = 200,
                                                !.acked = @ \cup {webhook.id}]
                  /\ sent' = calls
  /\ UNCHANGED <<now, poller, dedup, store, flood, rq, adm, menu, botjs, reg, conc, outage, bucket, lim, ban, cb, wr, bc>>
  /\ UNCHANGED conversation

WebhookNext ==
  \/ \E m \in Methods, id \in UpdateIds : WebhookRequest(m, id)
  \/ \E failAt \in 0..2 : WebhookHandle(failAt)

(***************************************************************************)
(* The manual polling loop.                                                *)
(***************************************************************************)
MaxUpdates == 3

MaxThrows == 2

\* The errors caught and the calls of processUpdate are counted up to
\* MaxThrows; the loop itself goes on without a limit.
Counted(n) == IF n < MaxThrows THEN n + 1 ELSE n

\* An update of the server: whether its text is '/start', how often
\* processUpdate was called for it and whether a call returned.
Pending(start) == [start |-> start, calls |-> 0, done |-> FALSE]

PollerStart ==
  [pc |-> "fetch", offset |-> 0, batch |-> <<>>, i |-> 1,
   updates |-> [x \in {} |-> Pending(FALSE)], confirmed |-> {}, throws |-> 0]

PollerOff == [PollerStart EXCEPT !.pc = "off"]

\* The ids of set S in increasing order
RECURSIVE Sorted(_)
Sorted(S) ==
  IF S = {} THEN <<>>
  ELSE LET m == CHOOSE x \in S : \A y \in S : x <= y
       IN <<m>> \o Sorted(S \ {m})

\* The ids getUpdates?offset=o returns: the updates not yet confirmed with an
\* id of at least o; the call confirms (forgets) every update below o.
ConfirmedBy(o) == {id \in DOMAIN poller.updates : id < o}

Returned(o) ==
  Sorted({id \in DOMAIN poller.updates : id >= o /\ id \notin poller.confirmed})

\* A user sends a message: the server holds one more update, with a higher id
PollArrive(id, start) ==
  /\ poller.pc # "off"
  /\ id \in 1..MaxUpdates
  /\ \A x \in DOMAIN poller.updates : x < id
  /\ poller' = [poller EXCEPT !.updates =
       [x \in (DOMAIN poller.updates) \cup {id} |->
          IF x = id THEN Pending(start) ELSE poller.updates[x]]]
  /\ UNCHANGED <<now, sent, webhook, dedup, store, flood, rq, adm, menu, botjs, reg, conc, outage, bucket, lim, ban, cb, wr, bc>>
  /\ UNCHANGED conversation

\* fetch(getUpdates) and response.json(): a failed request raises into the
\* catch; an empty result goes round the loop; else the for loop starts.
PollFetch(ok) ==
  /\ poller.pc = "fetch"
  /\ IF ~ok
       THEN poller' = [poller EXCEPT !.pc = "sleep", !.throws = Counted(@)]
       ELSE /\ Returned(poller.offset) # <<>>
            /\ poller' = [poller EXCEPT !.pc = "process",
                                        !.batch = Returned(poller.offset),
                                        !.i = 1,
                                        !.confirmed = @ \cup ConfirmedBy(poller.offset)]
  /\ UNCHANGED <<now, sent, webhook, dedup, store, flood, rq, adm, menu, botjs, reg, conc, outage, bucket, lim, ban, cb, wr, bc>>
  /\ UNCHANGED conversation

\* A faulty variant of OffsetAfter: the offset is moved before processUpdate
\* is awaited, so it moves also when processUpdate raises
OffsetAfter_Early(offset, id, returned) == id + 1

\* offset = update.update_id + 1, reached only when processUpdate returned
OffsetAfter(offset, id, returned) == IF returned THEN id + 1 ELSE offset

\* One round of the for loop: await processUpdate(update), then the offset
\* moves.  Only sendMessage (for '/start') can raise; the catch logs and sleeps.
PollProcess(raises) ==
  /\ poller.pc = "process"
  /\ LET id == poller.batch[poller.i]
         u == poller.updates[id]
     IN IF raises
          THEN /\ u.start
               /\ poller' = [poller EXCEPT
                    !.pc = "sleep",
                    !.throws = Counted(@),
                    !.offset = OffsetAfter(@, id, FALSE),
                    !.updates[id].calls = Counted(@)]
               /\ sent' = <<>>
          ELSE /\ poller' = [poller EXCEPT
                    !.pc = IF poller.i = Len(poller.batch) THEN "fetch" ELSE "process",
                    !.i = @ + 1,
                    !.offset = OffsetAfter(@, id, TRUE),
                    !.updates[id].calls = Counted(@),
                    !.updates[id].done = TRUE]
               /\ sent' = IF u.start
                            THEN <<Message("text", "Hello!", VUndef, EmptyData)>>
                            ELSE <<>>
  /\ UNCHANGED <<now, webhook, dedup, store, flood, rq, adm, menu, botjs, reg, conc, outage, bucket, lim, ban, cb, wr, bc>>
  /\ UNCHANGED conversation

\* A faulty variant of PollWake: the try encloses the while loop, so the
\* first error caught ends the polling
PollWake_Stops ==
  /\ poller.pc = "sleep"
  /\ poller' = [poller EXCEPT !.pc = "stopped"]
  /\ UNCHANGED <<now, sent, webhook, dedup, store, flood, rq, adm, menu, botjs, reg, conc, outage, bucket, lim, ban, cb, wr, bc>>
  /\ UNCHANGED conversation

\* await sleep(5000) in the catch is over: the while loop goes on
PollWake ==
  /\ poller.pc = "sleep"
  /\ poller' = [poller EXCEPT !.pc = "fetch"]
  /\ UNCHANGED <<now, sent, webhook, dedup, store, flood, rq, adm, menu, botjs, reg, conc, outage, bucket, lim, ban, cb, wr, bc>>
  /\ UNCHANGED conversation

PollNext ==
  \/ \E id \in 1..MaxUpdates, start \in BOOLEAN : PollArrive(id, start)
  \/ \E ok \in BOOLEAN : PollFetch(ok)
  \/ \E raises \in BOOLEAN : PollProcess(raises)
  \/ PollWake

(***************************************************************************)
(* The duplicate filter.                                                   *)
(***************************************************************************)
MaxUpdateId == 5

DedupStart ==
  [pc |-> "ready", lastProcessed |-> 0, log |-> <<>>, last |-> 0, dropped |-> FALSE]

DedupOff == [DedupStart EXCEPT !.pc = "off"]

\* A faulty variant of Seen: the comparison is strict
Seen_Strict(id, lastProcessed) == id < lastProcessed

\* update.update_id <= lastProcessed
Seen(id, lastProcessed) == id <= lastProcessed

\* An update is delivered, in any order and any number of times: it is
\* ignored when its id is not above lastProcessed, else lastProcessed moves
\* to it and the update goes on to the handlers (log).
DedupDeliver(id) ==
  /\ dedup.pc = "ready"
  /\ IF Seen(id, dedup.lastProcessed)
       THEN dedup' = [dedup EXCEPT !.last = id, !.dropped = TRUE]
       ELSE dedup' = [dedup EXCEPT !.last = id, !.dropped = FALSE,
                                   !.lastProcessed = id,
                                   !.log = Append(@, id)]
  /\ UNCHANGED <<now, sent, webhook, poller, store, flood, rq, adm, menu, botjs, reg, conc, outage, bucket, lim, ban, cb, wr, bc>>
  /\ UNCHANGED conversation

DedupNext == \E id \in 1..MaxUpdateId : DedupDeliver(id)

(***************************************************************************)
(* The session timeout: the message handler that resets an expired session *)
(* and the periodic clean-up.  The clock ticks in minutes.                 *)
(***************************************************************************)
SessionTimeout == 30

MaxTime == 32

\* A faulty variant of IsSessionExpired: the operands the wrong way round
IsSessionExpired_Swapped(session, t) == session.lastActivity - t > SessionTimeout

\* Date.now() - session.lastActivity > SESSION_TIMEOUT
IsSessionExpired(session, t) == t - session.lastActivity > SessionTimeout

\* What a handler passes to updateSession: a new state, new data, or both
SessionUpdates ==
  {Result(TRUE, "awaiting_name", FALSE, EmptyData),
   Result(TRUE, "idle", FALSE, EmptyData),
   Result(TRUE, "", TRUE, SetField(EmptyData, "name", VStr(T_ann)))}

\* updateSession(userId, updates): Object.assign(session, updates,
\* {lastActivity: Date.now()}) on the object getSession returns
UpdateSession(ss, u, updates, t) ==
  LET s == GetSession(ss, u, t)
      s1 == IF updates.nextState # "" THEN [s EXCEPT !.state = updates.nextState]
            ELSE s
      s2 == IF updates.hasData THEN [s1 EXCEPT !.data = updates.data] ELSE s1
  IN [x \in (DOMAIN ss) \cup {u} |->
        IF x = u THEN [s2 EXCEPT !.lastActivity = t] ELSE ss[x]]

ExpiryNotice ==
  Message("text", "Your session expired. Please start again with /start", VUndef,
          EmptyData)

TimeoutReady ==
  [pc |-> "ready", user |-> "u1", found |-> NewSession(0), expired |-> FALSE,
   processed |-> FALSE, afterExpiry |-> FALSE, turn |-> 0]

TimeoutOff == [TimeoutReady EXCEPT !.pc = "off"]

\* The clock moves on by a minute
Tick ==
  /\ tmo.pc = "ready"
  /\ now < MaxTime
  /\ now' = now + 1
  /\ UNCHANGED <<sessions, sent, wz, fsm, tmo>>
  /\ UNCHANGED outside

\* bot.on('message'): an expired session is cleared, the user is told and the
\* message is dropped; else the activity is noted and the message processed
\* (the processing stores its changes with updateSession).
TimeoutMessage(u, updates) ==
  /\ tmo.pc = "ready"
  /\ LET s == GetSession(sessions, u, now)
         got == SessionsAfterGet(sessions, u, now)
     IN IF IsSessionExpired(s, now)
          THEN /\ sessions' = ClearSession(got, u)
               /\ sent' = <<ExpiryNotice>>
               /\ tmo' = [tmo EXCEPT !.user = u, !.found = s, !.expired = TRUE,
                                     !.processed = FALSE,
                                     !.afterExpiry = tmo.expired /\ tmo.user = u,
                                     !.turn = 1 - @]
          ELSE /\ sessions' = UpdateSession(got, u, updates, now)
               /\ sent' = <<>>
               /\ tmo' = [tmo EXCEPT !.user = u, !.found = s, !.expired = FALSE,
                                     !.processed = TRUE,
                                     !.afterExpiry = tmo.expired /\ tmo.user = u,
                                     !.turn = 1 - @]
  /\ UNCHANGED <<now, wz, fsm>>
  /\ UNCHANGED outside

\* setInterval: the sessions idle for longer than the timeout are deleted
Cleanup ==
  /\ tmo.pc = "ready"
  /\ sessions' = [x \in {y \in DOMAIN sessions : ~(now - sessions[y].lastActivity
                                                     > SessionTimeout)}
                   |-> sessions[x]]
  /\ UNCHANGED <<now, sent, wz, fsm, tmo>>
  /\ UNCHANGED outside

TimeoutNext ==
  \/ Tick
  \/ \E u \in Users, updates \in SessionUpdates : TimeoutMessage(u, updates)
  \/ Cleanup

(***************************************************************************)
(* The stateless session manager over Redis.                               *)
(***************************************************************************)
MaxWrites == 3

Callers == {"c1", "c2"}

\* A session as the manager's callers hold it
Session(state, data) == [state |-> state, data |-> data]

DefaultSession == Session("idle", EmptyData)

\* JSON.stringify(session): a property whose value is undefined is left out
Stringify(session) ==
  [json |-> Session(session.state,
                    [f \in {g \in DOMAIN session.data : session.data[g].kind # "undef"}
                       |-> session.data[f]])]

\* JSON.parse(data)
Parse(text) == text.json

NoKeys == [x \in {} |-> Stringify(DefaultSession)]

\* A faulty variant of Setex: the fields written are merged into the value
\* the key holds (as a hash would be), fields not written are kept
Setex_Merges(keys, u, text) ==
  [x \in (DOMAIN keys) \cup {u} |->
     IF x # u THEN keys[x]
     ELSE IF u \notin DOMAIN keys THEN text
     ELSE [json |-> Session(text.json.state,
                            Assign(keys[u].json.data, text.json.data))]]

\* redis.setex(key, ttl, value): the key holds exactly the value
Setex(keys, u, text) ==
  [x \in (DOMAIN keys) \cup {u} |-> IF x = u THEN text ELSE keys[x]]

\* A faulty variant of ManagerGet: JSON.parse(data || '{}'), an object with
\* neither state nor data set
ManagerGet_NoDefault(keys, u) ==
  IF u \in DOMAIN keys THEN Parse(keys[u]) ELSE Session("", EmptyData)

\* StatelessSessionManager.get: the parsed value, or the default if no key
ManagerGet(keys, u) ==
  IF u \in DOMAIN keys THEN Parse(keys[u]) ELSE DefaultSession

\* getSession of the Redis session code: the same, with lastActivity
RedisGetSession(keys, u, t) ==
  IF u \in DOMAIN keys THEN Parse(keys[u])
  ELSE [state |-> "idle", data |-> EmptyData, lastActivity |-> t]

\* Object.assign(session, updates) as update() does it
AssignUpdates(session, updates) ==
  LET s1 == IF updates.nextState # "" THEN [session EXCEPT !.state = updates.nextState]
            ELSE session
  IN IF updates.hasData THEN [s1 EXCEPT !.data = updates.data] ELSE s1

CallerIdle ==
  [pc |-> "idle", user |-> "u1", session |-> DefaultSession, readAt |-> 0,
   outcome |-> "", gets |-> 0, read |-> DefaultSession, updates |-> NoResult]

StoreStart ==
  [pc |-> "ready", keys |-> NoKeys, writes |-> 0,
   callers |-> [c \in Callers |-> CallerIdle]]

StoreOff == [StoreStart EXCEPT !.pc = "off"]

\* What the callers pass to update(): a state, data (one with an undefined
\* field), or both
StoreUpdates ==
  {Result(TRUE, "awaiting_name", FALSE, EmptyData),
   Result(TRUE, "", TRUE, SetField(EmptyData, "name", VStr(T_ann))),
   Result(TRUE, "awaiting_email", TRUE, SetField(EmptyData, "name", VUndef))}

\* sessions.get(userId), alone or as the first step of update(): the caller
\* holds the session read; nothing is written
StoreGet(c, u) ==
  /\ store.pc = "ready"
  /\ store.callers[c].pc \in {"idle", "read"}
  /\ store' = [store EXCEPT !.callers[c] =
       [pc |-> "read", user |-> u, session |-> ManagerGet(store.keys, u),
        readAt |-> store.writes, outcome |-> "",
        read |-> ManagerGet(store.keys, u), updates |-> NoResult,
        gets |-> IF store.callers[c].pc = "read" /\ store.callers[c].user = u
                      /\ store.callers[c].readAt = store.writes
                   THEN 2 ELSE 1]]
  /\ UNCHANGED <<now, sent, webhook, poller, dedup, flood, rq, adm, menu, botjs, reg, conc, outage, bucket, lim, ban, cb, wr, bc>>
  /\ UNCHANGED conversation

\* Object.assign(session, updates) between the get and the set of update()
StoreAssign(c, updates) ==
  /\ store.pc = "ready"
  /\ store.callers[c].pc = "read"
  /\ store' = [store EXCEPT
       !.callers[c].pc = "assigned",
       !.callers[c].updates = updates,
       !.callers[c].session = AssignUpdates(@, updates)]
  /\ UNCHANGED <<now, sent, webhook, poller, dedup, flood, rq, adm, menu, botjs, reg, conc, outage, bucket, lim, ban, cb, wr, bc>>
  /\ UNCHANGED conversation

\* sessions.set(userId, session): setex of the stringified session
StoreSet(c) ==
  /\ store.pc = "ready"
  /\ store.callers[c].pc = "assigned"
  /\ store.writes < MaxWrites
  /\ store' = [store EXCEPT
       !.keys = Setex(@, store.callers[c].user, Stringify(store.callers[c].session)),
       !.writes = @ + 1,
       !.callers[c].pc = "idle",
       !.callers[c].outcome = "success"]
  /\ UNCHANGED <<now, sent, webhook, poller, dedup, flood, rq, adm, menu, botjs, reg, conc, outage, bucket, lim, ban, cb, wr, bc>>
  /\ UNCHANGED conversation

\* sessions.delete(userId), or the key's time to live runs out
StoreDelete(u) ==
  /\ store.pc = "ready"
  /\ u \in DOMAIN store.keys
  /\ store.writes < MaxWrites
  /\ store' = [store EXCEPT
       !.keys = [x \in (DOMAIN store.keys) \ {u} |-> store.keys[x]],
       !.writes = @ + 1]
  /\ UNCHANGED <<now, sent, webhook, poller, dedup, flood, rq, adm, menu, botjs, reg, conc, outage, bucket, lim, ban, cb, wr, bc>>
  /\ UNCHANGED conversation

StoreNext ==
  \/ \E c \in Callers, u \in Users : StoreGet(c, u)
  \/ \E c \in Callers, updates \in StoreUpdates : StoreAssign(c, updates)
  \/ \E c \in Callers : StoreSet(c)
  \/ \E u \in Users : StoreDelete(u)

(***************************************************************************)
(* Sending under flood control: the flood wait handler and the retry queue. *)
(* Here the clock ticks in seconds.  A call of the Bot API takes time: it   *)
(* is begun in one step and answered in a later one.                        *)
(***************************************************************************)
MaxClock == 4

Chats == {"A", "B"}

\* The chat each call of execute is for
CallChat == [k \in {1, 2, 3} |-> IF k = 3 THEN "B" ELSE "A"]

\* error.response.body?.parameters?.retry_after, 0 if there is none
RetryAfters == {0, 1, 2}

DefaultRetryAfter == 30

\* retry_after || 30
RetryAfterOr30(r) == IF r = 0 THEN DefaultRetryAfter ELSE r

\* A faulty variant of WaitKey: one wait period for all the chats
WaitKey_Global(chatId) == "all"

\* The key of a chat's wait period in the waitUntil Map
WaitKey(chatId) == chatId

\* Some other chat is in a wait period now
OthersWaiting(chatId) ==
  \E x \in DOMAIN flood.waitUntil : x # chatId /\ now < flood.waitUntil[x]

NoCall == [pc |-> "none", wake |-> 0, othersWaiting |-> FALSE, last |-> ""]

FloodStart ==
  [pc |-> "ready", waitUntil |-> [x \in {} |-> 0], throttled |-> {},
   calls |-> [k \in DOMAIN CallChat |-> NoCall]]

FloodOff == [FloodStart EXCEPT !.pc = "off"]

\* A sleep or a timer that is due and has not been woken yet
TimerDue ==
  \/ \E k \in DOMAIN CallChat :
       flood.calls[k].pc \in {"waiting", "backoff"} /\ flood.calls[k].wake <= now
  \/ \E tm \in rq.timers : tm.due <= now

\* A second passes; sleeps and timers wake on time
Elapse ==
  /\ flood.pc = "ready" \/ rq.pc = "ready"
  /\ now < MaxClock
  /\ ~TimerDue
  /\ now' = now + 1
  /\ UNCHANGED <<sent, webhook, poller, dedup, store, flood, rq, adm, menu, botjs, reg, conc, outage, bucket, lim, ban, cb, wr, bc>>
  /\ UNCHANGED conversation

\* execute(chatId, fn): sleep if the chat is in a wait period, else call fn
FloodExecute(k) ==
  /\ flood.pc = "ready"
  /\ flood.calls[k].pc = "none"
  /\ LET key == WaitKey(CallChat[k])
         wait == key \in DOMAIN flood.waitUntil /\ now < flood.waitUntil[key]
     IN flood' = [flood EXCEPT !.calls[k] =
          IF wait
            THEN [pc |-> "waiting", wake |-> flood.waitUntil[key],
                  othersWaiting |-> OthersWaiting(CallChat[k]), last |-> ""]
            ELSE [pc |-> "sending", wake |-> 0,
                  othersWaiting |-> OthersWaiting(CallChat[k]), last |-> ""]]
  /\ UNCHANGED <<now, sent, webhook, poller, dedup, store, rq, adm, menu, botjs, reg, conc, outage, bucket, lim, ban, cb, wr, bc>>
  /\ UNCHANGED conversation

\* The sleep is over: fn is called (the first time, or again after a 429)
FloodWake(k) ==
  /\ flood.pc = "ready"
  /\ flood.calls[k].pc \in {"waiting", "backoff"}
  /\ flood.calls[k].wake <= now
  /\ flood' = [flood EXCEPT
       !.calls[k].pc = IF @ = "waiting" THEN "sending" ELSE "retrying"]
  /\ UNCHANGED <<now, sent, webhook, poller, dedup, store, rq, adm, menu, botjs, reg, conc, outage, bucket, lim, ban, cb, wr, bc>>
  /\ UNCHANGED conversation

\* fn() is answered: done; or a 429, which sets the chat's wait period and
\* sleeps before the one retry; or another error (or any error of the retry),
\* which execute throws
FloodAnswer(k, answer, retryAfter) ==
  /\ flood.pc = "ready"
  /\ flood.calls[k].pc \in {"sending", "retrying"}
  /\ flood' =
       IF answer = "ok" THEN [flood EXCEPT !.calls[k].pc = "done",
                                           !.calls[k].last = answer]
       ELSE IF answer = "429" /\ flood.calls[k].pc = "sending"
         THEN LET key == WaitKey(CallChat[k])
                  until == now + RetryAfterOr30(retryAfter)
              IN [flood EXCEPT
                    !.waitUntil = [x \in (DOMAIN @) \cup {key} |->
                                     IF x = key THEN until ELSE @[x]],
                    !.throttled = @ \cup {CallChat[k]},
                    !.calls[k].pc = "backoff",
                    !.calls[k].last = answer,
                    !.calls[k].wake = until]
       ELSE [flood EXCEPT !.calls[k].pc = "thrown", !.calls[k].last = answer]
  /\ UNCHANGED <<now, sent, webhook, poller, dedup, store, rq, adm, menu, botjs, reg, conc, outage, bucket, lim, ban, cb, wr, bc>>
  /\ UNCHANGED conversation

FloodNext ==
  \/ Elapse
  \/ \E k \in DOMAIN CallChat : FloodExecute(k)
  \/ \E k \in DOMAIN CallChat : FloodWake(k)
  \/ \E k \in DOMAIN CallChat, answer \in {"ok", "429", "error"},
        retryAfter \in RetryAfters : FloodAnswer(k, answer, retryAfter)

MaxQueued == 3

\* options.maxAttempts || 3
MaxAttempts == 3

\* options.delay || 1000, in seconds
RetryDelay == 1

NoItem == [id |-> 0, chat |-> "", attempts |-> 0, throttled |-> FALSE, refused |-> FALSE]

QueueStart ==
  [pc |-> "ready", queue |-> <<>>, processing |-> FALSE, cur |-> NoItem,
   timers |-> {}, added |-> 0, delivered |-> {}, dropped |-> {}, loops |-> 0]

QueueOff == [QueueStart EXCEPT !.pc = "off"]

\* process(): nothing if the loop runs or the queue is empty; else the loop
\* starts, takes the first item and calls its fn (loops: the loops running)
Process(q) ==
  IF q.processing \/ q.queue = <<>> THEN q
  ELSE [q EXCEPT !.processing = TRUE, !.cur = Head(q.queue), !.queue = Tail(q.queue),
                 !.loops = @ + 1]

\* A faulty variant of QueueAdd: the item is put at the front of the queue
QueueAdd_Prepends(chat) ==
  /\ rq.pc = "ready"
  /\ rq.added < MaxQueued
  /\ rq' = Process([rq EXCEPT
       !.added = @ + 1,
       !.queue = <<[id |-> rq.added + 1, chat |-> chat, attempts |-> 0,
                     throttled |-> FALSE, refused |-> FALSE]>> \o @])
  /\ UNCHANGED <<now, sent, webhook, poller, dedup, store, flood, adm, menu, botjs, reg, conc, outage, bucket, lim, ban, cb, wr, bc>>
  /\ UNCHANGED conversation

\* add(fn, options)
QueueAdd(chat) ==
  /\ rq.pc = "ready"
  /\ rq.added < MaxQueued
  /\ rq' = Process([rq EXCEPT
       !.added = @ + 1,
       !.queue = Append(@, [id |-> rq.added + 1, chat |-> chat, attempts |-> 0,
                            throttled |-> FALSE, refused |-> FALSE])])
  /\ UNCHANGED <<now, sent, webhook, poller, dedup, store, flood, adm, menu, botjs, reg, conc, outage, bucket, lim, ban, cb, wr, bc>>
  /\ UNCHANGED conversation

\* await item.fn() is over: on an error the item is retried after
\* delay * attempts, or given up after maxAttempts; the loop goes on with the
\* next item, or ends
QueueSettle(answer) ==
  /\ rq.pc = "ready"
  /\ rq.cur # NoItem
  /\ LET item == [rq.cur EXCEPT !.attempts = @ + 1,
                                !.throttled = @ \/ answer = "429",
                                !.refused = @ \/ answer = "403"]
         after ==
           IF answer = "ok" THEN [rq EXCEPT !.delivered = @ \cup {rq.cur.id}]
           ELSE IF item.attempts < MaxAttempts
             THEN [rq EXCEPT !.timers = @ \cup
                     {[item |-> item, due |-> now + RetryDelay * item.attempts]}]
           ELSE [rq EXCEPT !.dropped = @ \cup {item}]
     IN rq' = IF after.queue # <<>>
                THEN [after EXCEPT !.cur = Head(after.queue),
                                   !.queue = Tail(after.queue)]
                ELSE [after EXCEPT !.cur = NoItem, !.processing = FALSE,
                                   !.loops = @ - 1]
  /\ UNCHANGED <<now, sent, webhook, poller, dedup, store, flood, adm, menu, botjs, reg, conc, outage, bucket, lim, ban, cb, wr, bc>>
  /\ UNCHANGED conversation

\* A faulty variant of QueueTimer: the item is queued again, process() is
\* not called
QueueTimer_NoProcess(id) ==
  /\ rq.pc = "ready"
  /\ \E tm \in rq.timers :
       /\ tm.item.id = id
       /\ tm.due <= now
       /\ rq' = [rq EXCEPT !.timers = @ \ {tm},
                           !.queue = Append(@, tm.item)]
  /\ UNCHANGED <<now, sent, webhook, poller, dedup, store, flood, adm, menu, botjs, reg, conc, outage, bucket, lim, ban, cb, wr, bc>>
  /\ UNCHANGED conversation

\* setTimeout: the item is queued again and process() called
QueueTimer(id) ==
  /\ rq.pc = "ready"
  /\ \E tm \in rq.timers :
       /\ tm.item.id = id
       /\ tm.due <= now
       /\ rq' = Process([rq EXCEPT !.timers = @ \ {tm},
                                   !.queue = Append(@, tm.item)])
  /\ UNCHANGED <<now, sent, webhook, poller, dedup, store, flood, adm, menu, botjs, reg, conc, outage, bucket, lim, ban, cb, wr, bc>>
  /\ UNCHANGED conversation

\* Time does not stop while a timer is set
ElapseToTimer ==
  /\ rq.pc = "ready"
  /\ now >= MaxClock
  /\ ~TimerDue
  /\ \E tm \in rq.timers : tm.due > now
  /\ now' = now + 1
  /\ UNCHANGED <<sent, webhook, poller, dedup, store, flood, rq, adm, menu, botjs, reg, conc, outage, bucket, lim, ban, cb, wr, bc>>
  /\ UNCHANGED conversation

QueueNext ==
  \/ Elapse
  \/ \E chat \in Chats : QueueAdd(chat)
  \/ \E answer \in {"ok", "429", "403", "error"} : QueueSettle(answer)
  \/ \E id \in 1..MaxQueued : QueueTimer(id)

(***************************************************************************)
(* Admin-only commands: the adminOnly and groupAdminOnly wrappers around    *)
(* the handlers registered with bot.onText.                                 *)
(***************************************************************************)
T_stats       == <<"/", "s", "t", "a", "t", "s">>
T_broadcast   == <<"/", "b", "r", "o", "a", "d", "c", "a", "s", "t">>
T_broadcastHi == T_broadcast \o <<" ", "h", "i">>
T_pin         == <<"/", "p", "i", "n">>

AdminUsers == {"admin", "guest"}

\* ADMIN_IDS
AdminIds == {"admin"}

\* isAdmin(userId)
IsAdmin(userId) == userId \in AdminIds

ChatTypes == {"private", "group"}

\* What getChatMember answers: member.status, or "error" when the call fails
MemberStatus == {"creator", "administrator", "member", "error"}

\* A faulty variant of IsGroupAdmin: a failed getChatMember counts as admin
IsGroupAdmin_FailOpen(status) == status \in {"administrator", "creator", "error"}

\* isGroupAdmin(chatId, userId): false when getChatMember fails
IsGroupAdmin(status) == status \in {"administrator", "creator"}

\* The handlers registered with bot.onText, in the order of registration:
\* /\/broadcast (.+)/ and /\/stats/ wrapped by adminOnly, and a command
\* wrapped by groupAdminOnly (the source registers none; /pin stands for it)
Registrations ==
  << [pattern |-> T_broadcast \o <<" ">>, more |-> 1, guard |-> "adminOnly",
      handler |-> "broadcast"],
     [pattern |-> T_stats, more |-> 0, guard |-> "adminOnly", handler |-> "stats"],
     [pattern |-> T_pin, more |-> 0, guard |-> "groupAdminOnly", handler |-> "pin"] >>

\* regexp.exec(msg.text) finds a match: the literal text, followed by at
\* least `more` characters
Matches(r, v) ==
  /\ v.kind = "str"
  /\ \E i \in 1..(Len(v.s) - Len(r.pattern) + 1) :
       /\ SubSeq(v.s, i, i + Len(r.pattern) - 1) = r.pattern
       /\ i + Len(r.pattern) - 1 + r.more <= Len(v.s)

\* The wrapper lets the message through to the handler
Allows(r, userId, chatType, status) ==
  IF r.guard = "adminOnly" THEN IsAdmin(userId)
  ELSE chatType = "private" \/ IsGroupAdmin(status)

\* The refusal the wrapper sends
Refusal(r) ==
  Message("text", IF r.guard = "adminOnly" THEN "This command is admin-only"
                  ELSE "Admin only", VUndef, EmptyData)

AdminTexts == {VStr(T_stats), VStr(T_broadcastHi), VStr(T_broadcast), VStr(T_pin),
               VStr(T_hi), VUndef}

AdminIdle ==
  [pc |-> "idle", user |-> "guest", chatType |-> "private", status |-> "member",
   msg |-> VUndef, i |-> 1, invoked |-> {}]

AdminOff == [AdminIdle EXCEPT !.pc = "off"]

\* A message arrives; the library will run the callbacks registered with onText
AdminReceive(userId, chatType, status, v) ==
  /\ adm.pc \in {"idle", "done"}
  /\ adm' = [pc |-> "dispatch", user |-> userId, chatType |-> chatType,
             status |-> status, msg |-> v, i |-> 1, invoked |-> {}]
  /\ sent' = <<>>
  /\ UNCHANGED <<now, webhook, poller, dedup, store, flood, rq, menu, botjs, reg, conc, outage, bucket, lim, ban, cb, wr, bc>>
  /\ UNCHANGED conversation

\* The next registration: if its regular expression matches, its callback (the
\* wrapper) runs: it refuses with a message, or calls the handler
AdminDispatch ==
  /\ adm.pc = "dispatch"
  /\ LET r == Registrations[adm.i]
         last == adm.i = Len(Registrations)
         next == [adm EXCEPT !.pc = IF last THEN "done" ELSE @,
                             !.i = IF last THEN @ ELSE @ + 1]
     IN IF ~Matches(r, adm.msg)
          THEN adm' = next /\ UNCHANGED sent
          ELSE IF Allows(r, adm.user, adm.chatType, adm.status)
            THEN /\ adm' = [next EXCEPT !.invoked = @ \cup {r.handler}]
                 /\ UNCHANGED sent
            ELSE /\ adm' = next
                 /\ sent' = Append(sent, Refusal(r))
  /\ UNCHANGED <<now, webhook, poller, dedup, store, flood, rq, menu, botjs, reg, conc, outage, bucket, lim, ban, cb, wr, bc>>
  /\ UNCHANGED conversation

AdminNext ==
  \/ \E userId \in AdminUsers, chatType \in ChatTypes, status \in MemberStatus,
        v \in AdminTexts : AdminReceive(userId, chatType, status, v)
  \/ AdminDispatch

(***************************************************************************)
(* Command menus by scope (setMyCommands) and the node bot's handlers.      *)
(***************************************************************************)
MaxCalls == 2

\* Scope Priority: the order in which commands are resolved, first match wins
ScopePriority ==
  <<"chat_member", "chat_administrators", "chat", "all_chat_administrators",
    "all_group_chats", "all_private_chats", "default">>

\* The lists of commands passed to setMyCommands
CommandLists == {{"start"}, {"start", "settings"}, {"settings", "ban"}}

\* Who looks at the menu where: the chat and its type, the user, and whether
\* the user is an administrator of the chat.  The scopes with a chat_id are
\* those of chat "c1", the one with a user_id that of user "a" in "c1".
Contexts ==
  [chat : {"c1", "c2"}, type : {"group", "private"}, user : {"a", "b"},
   admin : BOOLEAN]

\* The scope applies to the context
Applies(scope, ctx) ==
  CASE scope = "chat_member" -> ctx.chat = "c1" /\ ctx.user = "a"
    [] scope = "chat_administrators" -> ctx.chat = "c1" /\ ctx.admin
    [] scope = "chat" -> ctx.chat = "c1"
    [] scope = "all_chat_administrators" -> ctx.type = "group" /\ ctx.admin
    [] scope = "all_group_chats" -> ctx.type = "group"
    [] scope = "all_private_chats" -> ctx.type = "private"
    [] scope = "default" -> TRUE

\* The list a scope holds after the calls: that of the last call for it
RECURSIVE ListOf(_, _)
ListOf(calls, scope) ==
  IF calls = <<>> THEN {}
  ELSE LET last == calls[Len(calls)]
       IN IF last.scope = scope THEN last.commands
          ELSE ListOf(SubSeq(calls, 1, Len(calls) - 1), scope)

\* The scopes from position k of the priority order on, down to the first
\* that applies and lists the command; "none" if there is none
RECURSIVE ResolveFrom(_, _, _, _)
ResolveFrom(k, calls, command, ctx) ==
  IF k > Len(ScopePriority) THEN "none"
  ELSE IF Applies(ScopePriority[k], ctx) /\ command \in ListOf(calls, ScopePriority[k])
    THEN ScopePriority[k]
  ELSE ResolveFrom(k + 1, calls, command, ctx)

\* A faulty variant of Resolve: the scope registered first that applies and
\* lists the command
Resolve_FirstRegistered(calls, command, ctx) ==
  LET hits == {k \in 1..Len(calls) :
                 Applies(calls[k].scope, ctx) /\ command \in calls[k].commands}
  IN IF hits = {} THEN "none"
     ELSE calls[CHOOSE k \in hits : \A j \in hits : k <= j].scope

\* The scope a command is resolved to for a context
Resolve(calls, command, ctx) == ResolveFrom(1, calls, command, ctx)

MenuStart == [pc |-> "ready", calls |-> <<>>]

MenuOff == [MenuStart EXCEPT !.pc = "off"]

\* bot.setMyCommands(commands, { scope })
SetMyCommands(commands, scope) ==
  /\ menu.pc = "ready"
  /\ Len(menu.calls) < MaxCalls
  /\ menu' = [menu EXCEPT !.calls =
                Append(@, [scope |-> scope, commands |-> commands])]
  /\ UNCHANGED <<now, sent, webhook, poller, dedup, store, flood, rq, adm, botjs, reg, conc, outage, bucket, lim, ban, cb, wr, bc>>
  /\ UNCHANGED conversation

MenuNext ==
  \E commands \in CommandLists, k \in 1..Len(ScopePriority) :
    SetMyCommands(commands, ScopePriority[k])

T_echoStart == <<"/", "e", "c", "h", "o", " ">> \o T_start

\* The handlers bot.js registers with bot.onText: the literal text of the
\* regular expression and the number of characters (.+) needs after it
TextHandlers ==
  [start |-> [pattern |-> T_start, more |-> 0],
   help |-> [pattern |-> T_help, more |-> 0],
   echo |-> [pattern |-> <<"/", "e", "c", "h", "o", " ">>, more |-> 1]]

\* The orders the three handlers can be registered in
HandlerOrders ==
  {o \in [1..3 -> DOMAIN TextHandlers] : \A i, j \in 1..3 : i # j => o[i] # o[j]}

BotTexts ==
  {VStr(T_start), VStr(T_help), VStr(T_echoHi), VStr(T_echoStart), VStr(T_hi),
   VStr(T_unknown), VUndef}

\* The handlers run for the message, in the order they were registered in
RECURSIVE RunFrom(_, _, _)
RunFrom(k, order, v) ==
  IF k > Len(order) THEN <<>>
  ELSE (IF Matches(TextHandlers[order[k]], v) THEN <<order[k]>> ELSE <<>>)
         \o RunFrom(k + 1, order, v)

\* bot.on('message'): a text that is not a command is echoed
MessageHandlerEchoes(v) == v.kind = "str" /\ v.s # <<>> /\ ~StartsWith(v.s, <<"/">>)

\* match[1] of /\/echo (.+)/: what follows the first '/echo ' in the text
EchoMatch(s) ==
  LET i == CHOOSE i \in 1..Len(s) :
             /\ SubSeq(s, i, i + Len(T_echoSp) - 1) = T_echoSp
             /\ \A j \in 1..(i - 1) : SubSeq(s, j, j + Len(T_echoSp) - 1) # T_echoSp
  IN SubSeq(s, i + Len(T_echoSp), Len(s))

\* The message the handler sends with bot.sendMessage
ReplyOf(handler, v) ==
  CASE handler = "start" -> Message("text", "Hello! Welcome to my bot!", VUndef, EmptyData)
    [] handler = "help" -> Message("text", "Available commands:", VUndef, EmptyData)
    [] handler = "echo" -> Message("text", "You said: ", VStr(EchoMatch(v.s)), EmptyData)
    [] handler = "message" -> Message("text", "You said: ", v, EmptyData)

\* The messages the handlers run send, in the order they ran in
Replies(ran, v) == [k \in 1..Len(ran) |-> ReplyOf(ran[k], v)]

\* The order bot.js registers its onText handlers in
BotJsOrder == <<"start", "help", "echo">>

BotJsStart(order) == [pc |-> "idle", order |-> order, msg |-> VUndef, ran |-> <<>>]

BotJsOff == [BotJsStart([i \in 1..3 |-> "start"]) EXCEPT !.pc = "off"]

\* A message arrives: 'message' is emitted, then every onText callback whose
\* regular expression matches is called; the handlers do not await
BotJsMessage(v) ==
  /\ botjs.pc \in {"idle", "done"}
  /\ botjs' = [botjs EXCEPT
       !.pc = "done", !.msg = v,
       !.ran = (IF MessageHandlerEchoes(v) THEN <<"message">> ELSE <<>>)
                 \o RunFrom(1, botjs.order, v)]
  /\ sent' = <<>>
  /\ UNCHANGED <<now, webhook, poller, dedup, store, flood, rq, adm, menu, reg, conc, outage, bucket, lim, ban, cb, wr, bc>>
  /\ UNCHANGED conversation

BotJsNext == \E v \in BotTexts : BotJsMessage(v)

(***************************************************************************)
(* Registering state handlers: ConversationFSM.on.                         *)
(***************************************************************************)
MaxRegistrations == 3

RegStates == {"idle", "awaiting_name", "awaiting_email"}

HandlerNames == {"h1", "h2"}

\* A faulty variant of MapSet: a key the Map has keeps its value
MapSet_KeepFirst(map, key, value) ==
  [x \in (DOMAIN map) \cup {key} |-> IF x \in DOMAIN map THEN map[x] ELSE value]

\* Map.prototype.set
MapSet(map, key, value) ==
  [x \in (DOMAIN map) \cup {key} |-> IF x = key THEN value ELSE map[x]]

\* this.handlers.get(session.state): the handler, or "undefined"
HandlerFor(map, state) == IF state \in DOMAIN map THEN map[state] ELSE "undefined"

RegStart ==
  [pc |-> "ready", handlers |-> [x \in {} |-> "h1"], first |-> [x \in {} |-> "h1"],
   calls |-> 0, state |-> "", handler |-> "", returned |-> "", looked |-> ""]

RegOff == [RegStart EXCEPT !.pc = "off"]

\* on(state, handler): the handler is set for the state and this returned
On(state, handler) ==
  /\ reg.pc = "ready"
  /\ reg.calls < MaxRegistrations
  /\ reg' = [reg EXCEPT
       !.handlers = MapSet(@, state, handler),
       !.first = IF state \in DOMAIN @ THEN @ ELSE MapSet(@, state, handler),
       !.calls = @ + 1,
       !.state = state,
       !.handler = handler,
       !.returned = "this"]
  /\ UNCHANGED <<now, sent, webhook, poller, dedup, store, flood, rq, adm,
                 menu, botjs, conc, outage, bucket, lim, ban, cb, wr, bc>>
  /\ UNCHANGED conversation

\* process(session, msg) looks the handler of session.state up
RegLookup(state) ==
  /\ reg.pc = "ready"
  /\ reg' = [reg EXCEPT !.state = state, !.looked = HandlerFor(reg.handlers, state)]
  /\ UNCHANGED <<now, sent, webhook, poller, dedup, store, flood, rq, adm,
                 menu, botjs, conc, outage, bucket, lim, ban, cb, wr, bc>>
  /\ UNCHANGED conversation

RegNext ==
  \/ \E state \in RegStates, handler \in HandlerNames : On(state, handler)
  \/ \E state \in RegStates : RegLookup(state)

(***************************************************************************)
(* The FSM message handler with the sessions in Redis, run for messages of *)
(* one user whose handling overlaps (a handler is suspended at each await). *)
(***************************************************************************)
MaxHandled == 3

Instances == {"i1", "i2"}

ConcInputs == {VStr(T_register), VStr(T_ann), VStr(T_email), VStr(T_cancel)}

\* JSON.stringify(session) of a session with lastActivity
StringifySession(session) ==
  [json |-> [state |-> session.state,
             data |-> [f \in {g \in DOMAIN session.data :
                                session.data[g].kind # "undef"} |-> session.data[f]],
             lastActivity |-> session.lastActivity]]

\* saveSession(userId, session): lastActivity is set and the session written
RedisSaveSession(keys, u, session, t) ==
  Setex(keys, u, StringifySession([session EXCEPT !.lastActivity = t]))

InstanceIdle ==
  [pc |-> "idle", msg |-> VUndef, attempt |-> 0,
   session |-> RedisGetSession(NoKeys, "u1", 0), readAt |-> 0, result |-> NoResult,
   outcome |-> "", stale |-> FALSE]

ConcStart ==
  [pc |-> "ready", keys |-> NoKeys, writes |-> 0, handled |-> 0, delivered |-> <<>>,
   inst |-> [h \in Instances |-> InstanceIdle]]

ConcOff == [ConcStart EXCEPT !.pc = "off"]

\* bot.on('message'): the handler starts and reads the user's session
ConcGet(h, v) ==
  /\ conc.pc = "ready"
  /\ conc.inst[h].pc = "idle"
  /\ conc.handled < MaxHandled
  /\ conc' = [conc EXCEPT
       !.handled = @ + 1,
       !.inst[h] = [pc |-> "process", msg |-> v, attempt |-> conc.handled + 1,
                    session |-> RedisGetSession(conc.keys, "u1", now),
                    readAt |-> conc.writes, result |-> NoResult, outcome |-> "",
                    stale |-> FALSE]]
  /\ UNCHANGED <<now, sent, webhook, poller, dedup, store, flood, rq, adm,
                 menu, botjs, reg, outage, bucket, lim, ban, cb, wr, bc>>
  /\ UNCHANGED conversation

\* process up to the handler's await: the handler of session.state runs and
\* sends its message; a state without a handler is logged and nothing applied
ConcProcess(h) ==
  /\ conc.pc = "ready"
  /\ conc.inst[h].pc = "process"
  /\ LET i == conc.inst[h]
     IN IF i.session.state \notin HandledStates
          THEN conc' = [conc EXCEPT !.inst[h].pc = "result",
                                    !.inst[h].result = Result(TRUE, "", FALSE, EmptyData)]
          ELSE LET r == StateHandler(i.session.state, i.session, i.msg)
               IN conc' = [conc EXCEPT
                    !.inst[h].pc = "result",
                    !.inst[h].result = r.result,
                    !.delivered = @ \o [k \in 1..Len(r.out) |->
                                          [attempt |-> i.attempt, message |-> r.out[k]]]]
  /\ UNCHANGED <<now, sent, webhook, poller, dedup, store, flood, rq, adm,
                 menu, botjs, reg, outage, bucket, lim, ban, cb, wr, bc>>
  /\ UNCHANGED conversation

\* A faulty variant of ConcSave: a handler that finds the session written
\* since it read it does not save but reads the session again and starts over
ConcSave_Retries(h) ==
  /\ conc.pc = "ready"
  /\ conc.inst[h].pc = "result"
  /\ LET i == conc.inst[h]
     IN IF ~i.result.defined
          THEN conc' = [conc EXCEPT !.inst[h].pc = "idle", !.inst[h].outcome = "raised"]
          ELSE IF i.readAt # conc.writes
          THEN conc' = [conc EXCEPT
                 !.inst[h].pc = "process",
                 !.inst[h].session = RedisGetSession(conc.keys, "u1", now),
                 !.inst[h].readAt = conc.writes]
          ELSE conc' = [conc EXCEPT
                 !.keys = RedisSaveSession(@, "u1", ApplyResult(i.session, i.result), now),
                 !.writes = @ + 1,
                 !.inst[h].pc = "idle",
                 !.inst[h].session = ApplyResult(i.session, i.result),
                 !.inst[h].outcome = "saved",
                 !.inst[h].stale = FALSE]
  /\ UNCHANGED <<now, sent, webhook, poller, dedup, store, flood, rq, adm,
                 menu, botjs, reg, outage, bucket, lim, ban, cb, wr, bc>>
  /\ UNCHANGED conversation

\* process after the handler returned, and saveSession: the result is applied
\* to the session this handler read and the session written; a handler that
\* returned nothing makes process raise, and nothing is saved
ConcSave(h) ==
  /\ conc.pc = "ready"
  /\ conc.inst[h].pc = "result"
  /\ LET i == conc.inst[h]
     IN IF ~i.result.defined
          THEN conc' = [conc EXCEPT !.inst[h].pc = "idle", !.inst[h].outcome = "raised"]
          ELSE conc' = [conc EXCEPT
                 !.keys = RedisSaveSession(@, "u1", ApplyResult(i.session, i.result), now),
                 !.writes = @ + 1,
                 !.inst[h].pc = "idle",
                 !.inst[h].session = ApplyResult(i.session, i.result),
                 !.inst[h].outcome = "saved",
                 !.inst[h].stale = i.readAt # conc.writes]
  /\ UNCHANGED <<now, sent, webhook, poller, dedup, store, flood, rq, adm,
                 menu, botjs, reg, outage, bucket, lim, ban, cb, wr, bc>>
  /\ UNCHANGED conversation

ConcNext ==
  \/ \E h \in Instances, v \in ConcInputs : ConcGet(h, v)
  \/ \E h \in Instances : ConcProcess(h)
  \/ \E h \in Instances : ConcSave(h)

(***************************************************************************)
(* The session code over Redis while the connection to Redis comes and     *)
(* goes: a command issued while it is down is rejected.                    *)
(***************************************************************************)
\* A faulty variant of AwaitGet: the rejection is swallowed and the get
\* answers as for a key that does not exist
AwaitGet_Swallowed(up, keys) ==
  [rejected |-> FALSE, keys |-> IF up THEN keys ELSE NoKeys]

\* await redis.get(key): rejected while Redis is down (neither getSession nor
\* the manager's get has a catch), else answered from the keys stored
AwaitGet(up, keys) ==
  [rejected |-> ~up, keys |-> IF up THEN keys ELSE NoKeys]

OutageIdle ==
  [pc |-> "idle", call |-> "", msg |-> VUndef, holds |-> FALSE,
   session |-> RedisGetSession(NoKeys, "u1", 0), result |-> NoResult, outcome |-> ""]

OutageStart ==
  [pc |-> "ready", up |-> TRUE, keys |-> NoKeys, h |-> OutageIdle]

OutageOff == [OutageStart EXCEPT !.pc = "off"]

\* The connection to Redis is lost
RedisFails ==
  /\ outage.pc = "ready"
  /\ outage.up
  /\ outage' = [outage EXCEPT !.up = FALSE]
  /\ UNCHANGED sent
  /\ UNCHANGED <<now, webhook, poller, dedup, store, flood, rq, adm, menu,
                 botjs, reg, conc, bucket, lim, ban, cb, wr, bc>>
  /\ UNCHANGED conversation

\* The connection to Redis is back
RedisRecovers ==
  /\ outage.pc = "ready"
  /\ ~outage.up
  /\ outage' = [outage EXCEPT !.up = TRUE]
  /\ UNCHANGED sent
  /\ UNCHANGED <<now, webhook, poller, dedup, store, flood, rq, adm, menu,
                 botjs, reg, conc, bucket, lim, ban, cb, wr, bc>>
  /\ UNCHANGED conversation

\* bot.on('message'): the handler starts with getSession(userId); a rejected
\* get ends the handler with that error, before anything is processed
OutageGetSession(v) ==
  /\ outage.pc = "ready"
  /\ outage.h.pc = "idle"
  /\ LET a == AwaitGet(outage.up, outage.keys)
     IN IF a.rejected
          THEN outage' = [outage EXCEPT !.h =
                 [OutageIdle EXCEPT !.call = "getSession", !.msg = v,
                                    !.outcome = "rejected"]]
          ELSE outage' = [outage EXCEPT !.h =
                 [pc |-> "process", call |-> "getSession", msg |-> v, holds |-> TRUE,
                  session |-> RedisGetSession(a.keys, "u1", now),
                  result |-> NoResult, outcome |-> ""]]
  /\ sent' = <<>>
  /\ UNCHANGED <<now, webhook, poller, dedup, store, flood, rq, adm, menu,
                 botjs, reg, conc, bucket, lim, ban, cb, wr, bc>>
  /\ UNCHANGED conversation

\* sessions.get(userId) of the StatelessSessionManager, on its own
OutageManagerGet ==
  /\ outage.pc = "ready"
  /\ outage.h.pc = "idle"
  /\ LET a == AwaitGet(outage.up, outage.keys)
     IN IF a.rejected
          THEN outage' = [outage EXCEPT !.h =
                 [OutageIdle EXCEPT !.call = "get", !.outcome = "rejected"]]
          ELSE outage' = [outage EXCEPT !.h =
                 [OutageIdle EXCEPT !.call = "get", !.holds = TRUE,
                                    !.session = ManagerGet(a.keys, "u1"),
                                    !.outcome = "returned"]]
  /\ sent' = <<>>
  /\ UNCHANGED <<now, webhook, poller, dedup, store, flood, rq, adm, menu,
                 botjs, reg, conc, bucket, lim, ban, cb, wr, bc>>
  /\ UNCHANGED conversation

\* registrationFSM.process(session, msg): the handler of session.state sends
\* its message and its result is applied to the session held
OutageProcess ==
  /\ outage.pc = "ready"
  /\ outage.h.pc = "process"
  /\ LET i == outage.h
     IN IF i.session.state \notin HandledStates
          THEN /\ outage' = [outage EXCEPT !.h.pc = "save"]
               /\ UNCHANGED sent
          ELSE LET r == StateHandler(i.session.state, i.session, i.msg)
               IN IF ~r.result.defined
                    THEN /\ outage' = [outage EXCEPT !.h.pc = "idle",
                                                     !.h.outcome = "raised"]
                         /\ sent' = sent \o r.out
                    ELSE /\ outage' = [outage EXCEPT
                              !.h.pc = "save",
                              !.h.result = r.result,
                              !.h.session = ApplyResult(i.session, r.result)]
                         /\ sent' = sent \o r.out
  /\ UNCHANGED <<now, webhook, poller, dedup, store, flood, rq, adm, menu,
                 botjs, reg, conc, bucket, lim, ban, cb, wr, bc>>
  /\ UNCHANGED conversation

\* saveSession(userId, session): the setex is rejected while Redis is down
OutageSave ==
  /\ outage.pc = "ready"
  /\ outage.h.pc = "save"
  /\ IF ~outage.up
       THEN outage' = [outage EXCEPT !.h.pc = "idle", !.h.outcome = "rejected"]
       ELSE outage' = [outage EXCEPT
              !.keys = RedisSaveSession(@, "u1", outage.h.session, now),
              !.h.pc = "idle",
              !.h.outcome = "saved"]
  /\ UNCHANGED sent
  /\ UNCHANGED <<now, webhook, poller, dedup, store, flood, rq, adm, menu,
                 botjs, reg, conc, bucket, lim, ban, cb, wr, bc>>
  /\ UNCHANGED conversation

OutageNext ==
  \/ RedisFails
  \/ RedisRecovers
  \/ \E v \in ConcInputs : OutageGetSession(v)
  \/ OutageManagerGet
  \/ OutageProcess
  \/ OutageSave

(***************************************************************************)
(* The token bucket rate limiter.  Here the clock ticks TicksPerSecond     *)
(* times a second and the tokens of a bucket are counted in units of       *)
(* 1/TicksPerSecond token, so that a bucket gains refillRate units a tick. *)
(***************************************************************************)
TicksPerSecond == 2

MaxTicks == 4

MaxSends == 3

GlobalCapacity == 30

GlobalRefillRate == 30

ChatCapacity == 1

ChatRefillRate == 1

\* take(): count = 1, in units
Count == TicksPerSecond

\* new TokenBucket(capacity, refillRate) at time t
NewBucket(capacity, refillRate, t) ==
  [capacity |-> capacity * TicksPerSecond, tokens |-> capacity * TicksPerSecond,
   refillRate |-> refillRate, lastRefill |-> t]

\* refill() at time t
Refill(b, t) ==
  LET gained == b.tokens + (t - b.lastRefill) * b.refillRate
  IN [b EXCEPT !.tokens = IF gained < b.capacity THEN gained ELSE b.capacity,
               !.lastRefill = t]

\* waitTime of take() for a refilled bucket short of tokens, in ticks (the
\* sleep ends at the first tick not before it)
WaitTime(b) ==
  LET short == Count - b.tokens
  IN (short + b.refillRate - 1) \div b.refillRate

\* take() up to its return or its sleep: the bucket afterwards, and the wait
\* (0: the token was taken)
TakeNow(b, t) ==
  LET r == Refill(b, t)
  IN IF r.tokens >= Count
       THEN [bucket |-> [r EXCEPT !.tokens = @ - Count], wait |-> 0]
       ELSE [bucket |-> r, wait |-> WaitTime(r)]

\* take() after its sleep: refill, and the token is taken whatever the bucket
\* holds
TakeAfterSleep(b, t) ==
  LET r == Refill(b, t)
  IN [r EXCEPT !.tokens = @ - Count]

\* chatLimiters.get(chatId) after getChatLimiter made the limiter if absent
GetChatLimiter(limiters, chat, t) ==
  IF chat \in DOMAIN limiters THEN limiters[chat]
  ELSE NewBucket(ChatCapacity, ChatRefillRate, t)

MapPut(limiters, chat, b) ==
  [x \in (DOMAIN limiters) \cup {chat} |-> IF x = chat THEN b ELSE limiters[x]]

NoLimiters == [x \in {} |-> NewBucket(ChatCapacity, ChatRefillRate, 0)]

NoSend == [pc |-> "none", chat |-> "A", wake |-> 0, sentAt |-> 0]

\* The limiter at time 0, new or after burst messages have just been sent to
\* as many other chats (each took a token of the global bucket)
BucketStart(burst) ==
  [pc |-> "ready",
   global |-> [NewBucket(GlobalCapacity, GlobalRefillRate, 0)
                 EXCEPT !.tokens = @ - burst * Count],
   chatLimiters |-> NoLimiters,
   burst |-> burst,
   calls |-> [k \in 1..MaxSends |-> NoSend]]

BucketOff == [BucketStart(0) EXCEPT !.pc = "off"]

\* A sleep of a take() is over, or a take() has returned and the call goes on
\* at once
Runnable ==
  \E k \in 1..MaxSends :
    \/ /\ bucket.calls[k].pc \in {"globalWait", "chatWait"}
       /\ bucket.calls[k].wake <= now
    \/ bucket.calls[k].pc \in {"chatTake", "send"}

\* A tick passes; sleeps end on time and a call that can go on does so first
BucketTick ==
  /\ bucket.pc = "ready"
  /\ now < MaxTicks
  /\ ~Runnable
  /\ now' = now + 1
  /\ UNCHANGED bucket
  /\ UNCHANGED <<sent, webhook, poller, dedup, store, flood, rq, adm, menu, botjs,
                 reg, conc, outage, lim, ban, cb, wr, bc>>
  /\ UNCHANGED conversation

\* rateLimitedSend(chatId, text): globalLimiter.take() up to its return or
\* its sleep
RateLimitedSend(k, chat) ==
  /\ bucket.pc = "ready"
  /\ bucket.calls[k].pc = "none"
  /\ \A j \in 1..(k - 1) : bucket.calls[j].pc # "none"
  /\ LET a == TakeNow(bucket.global, now)
     IN bucket' = [bucket EXCEPT
          !.global = a.bucket,
          !.calls[k] = [pc |-> IF a.wait = 0 THEN "chatTake" ELSE "globalWait",
                        chat |-> chat, wake |-> now + a.wait, sentAt |-> 0]]
  /\ UNCHANGED <<now, sent, webhook, poller, dedup, store, flood, rq, adm, menu, botjs,
                 reg, conc, outage, lim, ban, cb, wr, bc>>
  /\ UNCHANGED conversation

\* globalLimiter.take() after its sleep
GlobalWake(k) ==
  /\ bucket.pc = "ready"
  /\ bucket.calls[k].pc = "globalWait"
  /\ bucket.calls[k].wake <= now
  /\ bucket' = [bucket EXCEPT
       !.global = TakeAfterSleep(@, now),
       !.calls[k].pc = "chatTake"]
  /\ UNCHANGED <<now, sent, webhook, poller, dedup, store, flood, rq, adm, menu, botjs,
                 reg, conc, outage, lim, ban, cb, wr, bc>>
  /\ UNCHANGED conversation

\* getChatLimiter(chatId).take() up to its return or its sleep
ChatTake(k) ==
  /\ bucket.pc = "ready"
  /\ bucket.calls[k].pc = "chatTake"
  /\ LET chat == bucket.calls[k].chat
         a == TakeNow(GetChatLimiter(bucket.chatLimiters, chat, now), now)
     IN bucket' = [bucket EXCEPT
          !.chatLimiters = MapPut(@, chat, a.bucket),
          !.calls[k].pc = IF a.wait = 0 THEN "send" ELSE "chatWait",
          !.calls[k].wake = now + a.wait]
  /\ UNCHANGED <<now, sent, webhook, poller, dedup, store, flood, rq, adm, menu, botjs,
                 reg, conc, outage, lim, ban, cb, wr, bc>>
  /\ UNCHANGED conversation

\* getChatLimiter(chatId).take() after its sleep
ChatWake(k) ==
  /\ bucket.pc = "ready"
  /\ bucket.calls[k].pc = "chatWait"
  /\ bucket.calls[k].wake <= now
  /\ LET chat == bucket.calls[k].chat
     IN bucket' = [bucket EXCEPT
          !.chatLimiters[chat] = TakeAfterSleep(@, now),
          !.calls[k].pc = "send"]
  /\ UNCHANGED <<now, sent, webhook, poller, dedup, store, flood, rq, adm, menu, botjs,
                 reg, conc, outage, lim, ban, cb, wr, bc>>
  /\ UNCHANGED conversation

\* bot.sendMessage(chatId, text)
BucketSend(k) ==
  /\ bucket.pc = "ready"
  /\ bucket.calls[k].pc = "send"
  /\ bucket' = [bucket EXCEPT !.calls[k].pc = "sent", !.calls[k].sentAt = now]
  /\ UNCHANGED <<now, sent, webhook, poller, dedup, store, flood, rq, adm, menu, botjs,
                 reg, conc, outage, lim, ban, cb, wr, bc>>
  /\ UNCHANGED conversation

BucketNext ==
  \/ BucketTick
  \/ \E k \in 1..MaxSends, chat \in Chats : RateLimitedSend(k, chat)
  \/ \E k \in 1..MaxSends : GlobalWake(k)
  \/ \E k \in 1..MaxSends : ChatTake(k)
  \/ \E k \in 1..MaxSends : ChatWake(k)
  \/ \E k \in 1..MaxSends : BucketSend(k)

(***************************************************************************)
(* The rate limiters rateLimit and slidingWindowLimit, for one key.        *)
(***************************************************************************)
LimLimit == 2

LimWindow == 2

MaxLimClock == 3

LimCallers == {"a", "b"}

LimTimes == 0..MaxLimClock

\* No request at any time
NoRequests == [t \in LimTimes |-> 0]

NoLimCall == [pc |-> "idle", now |-> 0]

\* rateLimits (the timestamps array of the key), the sorted set of the key in
\* Redis (how many members have each score), the calls of slidingWindowLimit
\* under way, and the requests each limiter admitted, by their time
LimStart ==
  [pc |-> "on", clock |-> 0, timestamps |-> <<>>, zset |-> NoRequests,
   calls |-> [c \in LimCallers |-> NoLimCall],
   allowed |-> [mem |-> NoRequests, zset |-> NoRequests]]

LimOff == [LimStart EXCEPT !.pc = "off"]

\* zcard: the number of members
RECURSIVE Members(_, _)
Members(zset, t) ==
  IF t \notin LimTimes THEN 0 ELSE zset[t] + Members(zset, t + 1)

\* Date.now() moves on
LimTick ==
  /\ lim.pc = "on"
  /\ lim.clock < MaxLimClock
  /\ lim' = [lim EXCEPT !.clock = @ + 1]
  /\ UNCHANGED <<now, sent, webhook, poller, dedup, store, flood, rq, adm, menu, botjs, reg, conc, outage, bucket, ban, cb, wr, bc>>
  /\ UNCHANGED conversation

\* timestamps.filter(t => now - t < window)
ValidTimestamps(timestamps, clock) ==
  SelectSeq(timestamps, LAMBDA t : clock - t < LimWindow)

\* rateLimit(userId, limit, window): synchronous, one step
RateLimit ==
  /\ lim.pc = "on"
  /\ LET valid == ValidTimestamps(lim.timestamps, lim.clock)
     IN IF Len(valid) >= LimLimit
          THEN lim' = [lim EXCEPT !.timestamps = valid]
          ELSE lim' = [lim EXCEPT !.timestamps = Append(valid, lim.clock),
                                  !.allowed.mem[lim.clock] = @ + 1]
  /\ UNCHANGED <<now, sent, webhook, poller, dedup, store, flood, rq, adm, menu, botjs, reg, conc, outage, bucket, ban, cb, wr, bc>>
  /\ UNCHANGED conversation

\* slidingWindowLimit is called: now = Date.now(), zremrangebyscore is sent
SlidingCall(c) ==
  /\ lim.pc = "on"
  /\ lim.calls[c].pc = "idle"
  /\ lim' = [lim EXCEPT !.calls[c] = [pc |-> "zrem", now |-> lim.clock]]
  /\ UNCHANGED <<now, sent, webhook, poller, dedup, store, flood, rq, adm, menu, botjs, reg, conc, outage, bucket, ban, cb, wr, bc>>
  /\ UNCHANGED conversation

\* redis.zremrangebyscore(key, 0, now - windowMs)
SlidingRemove(c) ==
  /\ lim.calls[c].pc = "zrem"
  /\ lim' = [lim EXCEPT
       !.zset = [t \in LimTimes |-> IF t <= lim.calls[c].now - LimWindow THEN 0 ELSE @[t]],
       !.calls[c].pc = "zcard"]
  /\ UNCHANGED <<now, sent, webhook, poller, dedup, store, flood, rq, adm, menu, botjs, reg, conc, outage, bucket, ban, cb, wr, bc>>
  /\ UNCHANGED conversation

\* redis.zcard(key) and the test of the count: return false, or go on to zadd
SlidingCount(c) ==
  /\ lim.calls[c].pc = "zcard"
  /\ lim' = [lim EXCEPT !.calls[c].pc =
               IF Members(lim.zset, 0) >= LimLimit THEN "idle" ELSE "zadd"]
  /\ UNCHANGED <<now, sent, webhook, poller, dedup, store, flood, rq, adm, menu, botjs, reg, conc, outage, bucket, ban, cb, wr, bc>>
  /\ UNCHANGED conversation

\* redis.zadd(key, now, member), redis.expire, return true: the request is
\* admitted, at the time the call read
SlidingAdd(c) ==
  /\ lim.calls[c].pc = "zadd"
  /\ lim' = [lim EXCEPT !.zset[lim.calls[c].now] = @ + 1,
                        !.allowed.zset[lim.calls[c].now] = @ + 1,
                        !.calls[c].pc = "idle"]
  /\ UNCHANGED <<now, sent, webhook, poller, dedup, store, flood, rq, adm, menu, botjs, reg, conc, outage, bucket, ban, cb, wr, bc>>
  /\ UNCHANGED conversation

LimNext ==
  \/ LimTick
  \/ RateLimit
  \/ \E c \in LimCallers :
       SlidingCall(c) \/ SlidingRemove(c) \/ SlidingCount(c) \/ SlidingAdd(c)

(***************************************************************************)
(* The ban system, for one user.                                           *)
(***************************************************************************)
MaxBanClock == 3

MaxDuration == 2

MaxBanOps == 3

\* A record of db.bans: expiresAt is a time (timed) or null
BanRecord(timed, expiresAt) == [present |-> TRUE, timed |-> timed, expiresAt |-> expiresAt]

NoBan == [present |-> FALSE, timed |-> FALSE, expiresAt |-> 0]

\* The process starts with an empty bannedUsers and whatever db.bans holds.
\* `op` is the banUser or unbanUser call under way, `chk` the isBanned call;
\* `inForce` is the ban last imposed and not lifted, `epoch` counts the bans
\* imposed and lifted, `result` is what isBanned returned last and `returns`
\* changes with every return of isBanned.
BanStart(db) ==
  [pc |-> "on", clock |-> 0, bannedUsers |-> FALSE, db |-> db,
   op |-> [pc |-> "idle", record |-> NoBan],
   chk |-> [pc |-> "idle", epoch |-> 0],
   inForce |-> db, epoch |-> 0, result |-> FALSE, returns |-> FALSE]

BanOff == [BanStart(NoBan) EXCEPT !.pc = "off"]

\* new Date() moves on
BanTick ==
  /\ ban.pc = "on"
  /\ ban.clock < MaxBanClock
  /\ ban' = [ban EXCEPT !.clock = @ + 1]
  /\ UNCHANGED <<now, sent, webhook, poller, dedup, store, flood, rq, adm, menu, botjs, reg, conc, outage, bucket, lim, cb, wr, bc>>
  /\ UNCHANGED conversation

\* expiresAt: duration ? new Date(Date.now() + duration) : null
ExpiresAt(clock, duration) ==
  IF duration # 0 THEN BanRecord(TRUE, clock + duration) ELSE BanRecord(FALSE, 0)

\* banUser(userId, reason, duration) up to its await: bannedUsers.add, and
\* the record to insert is built.  A duration of 0 stands for none (null).
BanUser(duration) ==
  /\ ban.pc = "on"
  /\ ban.op.pc = "idle"
  /\ ~ban.inForce.present
  /\ ~ban.db.present
  /\ ban.epoch < MaxBanOps
  /\ ban' = [ban EXCEPT !.bannedUsers = TRUE,
                        !.op = [pc |-> "insert", record |-> ExpiresAt(ban.clock, duration)]]
  /\ UNCHANGED <<now, sent, webhook, poller, dedup, store, flood, rq, adm, menu, botjs, reg, conc, outage, bucket, lim, cb, wr, bc>>
  /\ UNCHANGED conversation

\* await db.bans.insert(...) is done: the ban is imposed
BanInsert ==
  /\ ban.op.pc = "insert"
  /\ ban' = [ban EXCEPT !.db = ban.op.record,
                        !.inForce = ban.op.record,
                        !.epoch = @ + 1,
                        !.op.pc = "idle"]
  /\ UNCHANGED <<now, sent, webhook, poller, dedup, store, flood, rq, adm, menu, botjs, reg, conc, outage, bucket, lim, cb, wr, bc>>
  /\ UNCHANGED conversation

\* unbanUser(userId) up to its await: bannedUsers.delete
UnbanUser ==
  /\ ban.pc = "on"
  /\ ban.op.pc = "idle"
  /\ ban.inForce.present
  /\ ban.epoch < MaxBanOps
  /\ ban' = [ban EXCEPT !.bannedUsers = FALSE,
                        !.inForce = NoBan,
                        !.epoch = @ + 1,
                        !.op.pc = "delete"]
  /\ UNCHANGED <<now, sent, webhook, poller, dedup, store, flood, rq, adm, menu, botjs, reg, conc, outage, bucket, lim, cb, wr, bc>>
  /\ UNCHANGED conversation

\* await db.bans.delete({ userId }) is done
UnbanDelete ==
  /\ ban.op.pc = "delete"
  /\ ban' = [ban EXCEPT !.db = NoBan, !.op.pc = "idle"]
  /\ UNCHANGED <<now, sent, webhook, poller, dedup, store, flood, rq, adm, menu, botjs, reg, conc, outage, bucket, lim, cb, wr, bc>>
  /\ UNCHANGED conversation

\* ban.expiresAt && ban.expiresAt < new Date()
Expired(record, clock) == record.timed /\ record.expiresAt < clock

\* isBanned(userId) up to its await: a user in bannedUsers is banned, and
\* nothing else is looked at
IsBanned ==
  /\ ban.pc = "on"
  /\ ban.chk.pc = "idle"
  /\ IF ban.bannedUsers
       THEN ban' = [ban EXCEPT !.result = TRUE, !.returns = ~@]
       ELSE ban' = [ban EXCEPT !.chk = [pc |-> "findOne", epoch |-> ban.epoch]]
  /\ UNCHANGED <<now, sent, webhook, poller, dedup, store, flood, rq, adm, menu, botjs, reg, conc, outage, bucket, lim, cb, wr, bc>>
  /\ UNCHANGED conversation

\* isBanned after await db.bans.findOne: an expired ban is lifted with
\* unbanUser, any other ban is put into bannedUsers
IsBannedFound ==
  /\ ban.chk.pc = "findOne"
  /\ IF ~ban.db.present
       THEN ban' = [ban EXCEPT !.result = FALSE, !.returns = ~@, !.chk.pc = "idle"]
       ELSE IF Expired(ban.db, ban.clock)
         THEN ban' = [ban EXCEPT !.bannedUsers = FALSE,
                                 !.inForce = NoBan,
                                 !.epoch = IF @ < MaxBanOps THEN @ + 1 ELSE @,
                                 !.chk.pc = "unban"]
         ELSE ban' = [ban EXCEPT !.bannedUsers = TRUE,
                                 !.result = TRUE, !.returns = ~@, !.chk.pc = "idle"]
  /\ UNCHANGED <<now, sent, webhook, poller, dedup, store, flood, rq, adm, menu, botjs, reg, conc, outage, bucket, lim, cb, wr, bc>>
  /\ UNCHANGED conversation

\* isBanned after await unbanUser(userId): the record is deleted, return false
IsBannedUnbanned ==
  /\ ban.chk.pc = "unban"
  /\ ban' = [ban EXCEPT !.db = NoBan,
                        !.result = FALSE, !.returns = ~@, !.chk.pc = "idle"]
  /\ UNCHANGED <<now, sent, webhook, poller, dedup, store, flood, rq, adm, menu, botjs, reg, conc, outage, bucket, lim, cb, wr, bc>>
  /\ UNCHANGED conversation

BanNext ==
  \/ BanTick
  \/ \E d \in 0..MaxDuration : BanUser(d)
  \/ BanInsert
  \/ UnbanUser
  \/ UnbanDelete
  \/ IsBanned
  \/ IsBannedFound
  \/ IsBannedUnbanned

(***************************************************************************)
(* The circuit breaker.                                                    *)
(***************************************************************************)
FailureThreshold == 2

ResetTimeout == 1

MaxCbClock == 3

MaxExecutes == 5

CbCallers == {"a", "b"}

\* new CircuitBreaker(options).  `calls` holds, for each caller, whether its
\* fn() is running and how its last execute ended; `streak` counts the
\* failures since the last success, `executes` the calls of execute, `invoked`
\* the calls of fn, and `caller` is who called execute last.
CbStart ==
  [pc |-> "on", clock |-> 0, state |-> "CLOSED", failures |-> 0, lastFailure |-> 0,
   calls |-> [c \in CbCallers |-> [pc |-> "idle", outcome |-> "none"]],
   streak |-> 0, executes |-> 0, invoked |-> 0, caller |-> "a"]

CbOff == [CbStart EXCEPT !.pc = "off"]

\* Date.now() moves on
CbTick ==
  /\ cb.pc = "on"
  /\ cb.clock < MaxCbClock
  /\ cb' = [cb EXCEPT !.clock = @ + 1]
  /\ UNCHANGED <<now, sent, webhook, poller, dedup, store, flood, rq, adm, menu, botjs, reg, conc, outage, bucket, lim, ban, wr, bc>>
  /\ UNCHANGED conversation

\* Date.now() - this.lastFailure > this.resetTimeout
ResetDue(clock, lastFailure) == clock - lastFailure > ResetTimeout

\* execute(fn) up to 'await fn()': an OPEN breaker turns HALF_OPEN when the
\* reset is due and throws otherwise; else fn is invoked
CbExecute(c) ==
  /\ cb.pc = "on"
  /\ cb.calls[c].pc = "idle"
  /\ cb.executes < MaxExecutes
  /\ IF cb.state = "OPEN" /\ ~ResetDue(cb.clock, cb.lastFailure)
       THEN cb' = [cb EXCEPT !.calls[c].outcome = "rejected", !.executes = @ + 1,
                             !.caller = c]
       ELSE cb' = [cb EXCEPT !.state = IF @ = "OPEN" THEN "HALF_OPEN" ELSE @,
                             !.calls[c] = [pc |-> "running", outcome |-> "none"],
                             !.executes = @ + 1,
                             !.invoked = @ + 1,
                             !.caller = c]
  /\ UNCHANGED <<now, sent, webhook, poller, dedup, store, flood, rq, adm, menu, botjs, reg, conc, outage, bucket, lim, ban, wr, bc>>
  /\ UNCHANGED conversation

\* A faulty variant of OnSuccess: the failures are not forgotten
OnSuccess_KeepsFailures(b) == [b EXCEPT !.state = "CLOSED"]

\* onSuccess()
OnSuccess(b) == [b EXCEPT !.failures = 0, !.state = "CLOSED"]

\* onFailure()
OnFailure(b) ==
  [b EXCEPT !.failures = @ + 1,
            !.lastFailure = b.clock,
            !.state = IF b.failures + 1 >= FailureThreshold THEN "OPEN" ELSE @]

\* fn() returned: onSuccess, and execute returns the result
CbSuccess(c) ==
  /\ cb.calls[c].pc = "running"
  /\ cb' = [OnSuccess(cb) EXCEPT !.calls[c] = [pc |-> "idle", outcome |-> "ok"],
                                 !.streak = 0]
  /\ UNCHANGED <<now, sent, webhook, poller, dedup, store, flood, rq, adm, menu, botjs, reg, conc, outage, bucket, lim, ban, wr, bc>>
  /\ UNCHANGED conversation

\* fn() threw: onFailure, and execute rethrows
CbFailure(c) ==
  /\ cb.calls[c].pc = "running"
  /\ cb' = [OnFailure(cb) EXCEPT !.calls[c] = [pc |-> "idle", outcome |-> "failed"],
                                 !.streak = @ + 1]
  /\ UNCHANGED <<now, sent, webhook, poller, dedup, store, flood, rq, adm, menu, botjs, reg, conc, outage, bucket, lim, ban, wr, bc>>
  /\ UNCHANGED conversation

CbNext ==
  \/ CbTick
  \/ \E c \in CbCallers : CbExecute(c) \/ CbSuccess(c) \/ CbFailure(c)

(***************************************************************************)
(* withRetry and withExponentialBackoff.                                   *)
(***************************************************************************)
MaxRetriesOption == 2

\* baseDelay, the maxDelay of withRetry and of withExponentialBackoff, in
\* seconds, and factor
BaseDelay == 1

MaxRetryDelay == 30

MaxBackoffDelay == 60

BackoffFactor == 2

\* What fn() can throw: the status code or the error code
Errors == {"500", "429", "400", "403", "ECONNRESET"}

\* isRetryable(error)
IsRetryable(error) == error \in {"500", "429", "ECONNRESET", "ETIMEDOUT"}

\* The shouldRetry option of withRetry: the default () => true, or isRetryable
ShouldRetry(policy, error) == policy = "always" \/ IsRetryable(error)

RECURSIVE Power(_, _)
Power(b, n) == IF n = 0 THEN 1 ELSE b * Power(b, n - 1)

Least(a, b) == IF a < b THEN a ELSE b

\* The sleep before the next attempt, in seconds (without the jitter)
RetryDelayOf(fun, attempt, error) ==
  IF fun = "withRetry"
    THEN IF error = "429" THEN DefaultRetryAfter
         ELSE Least(BaseDelay * Power(2, attempt), MaxRetryDelay)
    ELSE Least(BaseDelay * Power(BackoffFactor, attempt), MaxBackoffDelay)

\* fun(fn, {maxRetries, shouldRetry}) is called: the for loop starts and
\* fn() is called.  `settled` is how each call of fn ended.
RetryStart(fun, maxRetries, policy) ==
  [pc |-> "calling", fun |-> fun, maxRetries |-> maxRetries, policy |-> policy,
   attempt |-> 0, lastError |-> "", delay |-> 0, settled |-> <<>>,
   outcome |-> "", thrown |-> ""]

RetryOff == [RetryStart("withRetry", 0, "always") EXCEPT !.pc = "off"]

RetryStarts ==
  {RetryStart("withRetry", m, p) : m \in 0..MaxRetriesOption, p \in {"always", "isRetryable"}}
    \cup {RetryStart("withExponentialBackoff", m, "isRetryable") : m \in 0..MaxRetriesOption}

\* A faulty variant of LastAttempt: the loop has no bound
LastAttempt_Never(attempt, maxRetries) == FALSE

\* attempt === maxRetries
LastAttempt(attempt, maxRetries) == attempt = maxRetries

\* return await fn(): fn returned
RetryReturn ==
  /\ wr.pc = "calling"
  /\ Len(wr.settled) <= MaxRetriesOption + 1
  /\ wr' = [wr EXCEPT !.pc = "done", !.outcome = "returned",
                      !.settled = Append(@, "ok")]
  /\ UNCHANGED <<now, sent, webhook, poller, dedup, store, flood, rq, adm, menu, botjs, reg, conc, outage, bucket, lim, ban, cb, bc>>
  /\ UNCHANGED conversation

\* catch (error): the error is thrown after the last attempt or when it is
\* not to be retried; else the loop sleeps
RetryCatch(error) ==
  /\ wr.pc = "calling"
  /\ Len(wr.settled) <= MaxRetriesOption + 1
  /\ IF LastAttempt(wr.attempt, wr.maxRetries) \/ ~ShouldRetry(wr.policy, error)
       THEN wr' = [wr EXCEPT !.pc = "done", !.outcome = "threw", !.thrown = error,
                             !.lastError = error, !.settled = Append(@, error)]
       ELSE wr' = [wr EXCEPT !.pc = "sleeping", !.lastError = error,
                             !.delay = RetryDelayOf(wr.fun, wr.attempt, error),
                             !.settled = Append(@, error)]
  /\ UNCHANGED <<now, sent, webhook, poller, dedup, store, flood, rq, adm, menu, botjs, reg, conc, outage, bucket, lim, ban, cb, bc>>
  /\ UNCHANGED conversation

\* await sleep(delay) is over: attempt++ and fn() is called again
RetryWake ==
  /\ wr.pc = "sleeping"
  /\ wr' = [wr EXCEPT !.pc = "calling", !.attempt = @ + 1]
  /\ UNCHANGED <<now, sent, webhook, poller, dedup, store, flood, rq, adm, menu, botjs, reg, conc, outage, bucket, lim, ban, cb, bc>>
  /\ UNCHANGED conversation

RetryNext ==
  \/ RetryReturn
  \/ \E error \in Errors : RetryCatch(error)
  \/ RetryWake

(***************************************************************************)
(* The broadcast system.                                                   *)
(***************************************************************************)
MaxBcUsers == 3

\* attempts: 2 of the send jobs
JobAttempts == 2

\* userIds, the users the broadcast goes to
BcUsers == 1..MaxBcUsers

NoJob == [state |-> "none", attemptsMade |-> 0, counted |-> 0]

\* The broadcast record of db.broadcasts, the send job of each user (counted:
\* how often the job added to sent or failed), markUserBlocked's users
BcStart ==
  [pc |-> "ready", next |-> 1,
   record |-> [present |-> FALSE, totalUsers |-> 0, sent |-> 0, failed |-> 0],
   jobs |-> [u \in BcUsers |-> NoJob], blocked |-> {}]

BcOff == [BcStart EXCEPT !.pc = "off"]

\* startBroadcast(message, userIds): the broadcast record is inserted
StartBroadcast ==
  /\ bc.pc = "ready"
  /\ bc' = [bc EXCEPT !.pc = "adding",
                      !.record = [present |-> TRUE, totalUsers |-> Cardinality(BcUsers),
                                  sent |-> 0, failed |-> 0]]
  /\ UNCHANGED <<now, sent, webhook, poller, dedup, store, flood, rq, adm, menu, botjs, reg, conc, outage, bucket, lim, ban, cb, wr>>
  /\ UNCHANGED conversation

\* await this.queue.add('broadcast-message', ...) for the next user
BcQueueAdd ==
  /\ bc.pc = "adding"
  /\ bc' = [bc EXCEPT !.jobs[bc.next].state = "waiting",
                      !.next = @ + 1,
                      !.pc = IF bc.next = MaxBcUsers THEN "started" ELSE "adding"]
  /\ UNCHANGED <<now, sent, webhook, poller, dedup, store, flood, rq, adm, menu, botjs, reg, conc, outage, bucket, lim, ban, cb, wr>>
  /\ UNCHANGED conversation

\* The queue runs the job again while it has attempts left
AfterFailure(attemptsMade) ==
  IF attemptsMade < JobAttempts THEN "waiting" ELSE "failed"

\* The worker runs the job of user u: sendMessage, then $inc sent; or the
\* catch: markUserBlocked on a 403, $inc failed, and the error is thrown to
\* the queue
BcProcess(u, answer) ==
  /\ bc.pc \in {"adding", "started"}
  /\ bc.jobs[u].state = "waiting"
  /\ IF answer = "ok"
       THEN bc' = [bc EXCEPT !.record.sent = @ + 1,
                             !.jobs[u].state = "completed",
                             !.jobs[u].attemptsMade = @ + 1,
                             !.jobs[u].counted = @ + 1]
       ELSE bc' = [bc EXCEPT !.record.failed = @ + 1,
                             !.blocked = IF answer = "403" THEN @ \cup {u} ELSE @,
                             !.jobs[u].state = AfterFailure(bc.jobs[u].attemptsMade + 1),
                             !.jobs[u].attemptsMade = @ + 1,
                             !.jobs[u].counted = @ + 1]
  /\ UNCHANGED <<now, sent, webhook, poller, dedup, store, flood, rq, adm, menu, botjs, reg, conc, outage, bucket, lim, ban, cb, wr>>
  /\ UNCHANGED conversation

BcNext ==
  \/ StartBroadcast
  \/ BcQueueAdd
  \/ \E u \in BcUsers, answer \in {"ok", "403", "error"} : BcProcess(u, answer)

(***************************************************************************)
(* Specifications: one per program.                                        *)
(***************************************************************************)
\* The state in which program p starts; the other programs are off.
StartOf(p) ==
  /\ now = 0
  /\ sessions = NoSessions
  /\ sent = <<>>
  /\ wz = IF p = "wizard" THEN WizardIdle ELSE WizardOff
  /\ fsm = IF p = "fsm" THEN FsmIdle ELSE FsmOff
  /\ webhook = IF p = "webhook" THEN WebhookIdle ELSE WebhookOff
  /\ poller = IF p = "poller" THEN PollerStart ELSE PollerOff
  /\ dedup = IF p = "dedup" THEN DedupStart ELSE DedupOff
  /\ tmo = IF p = "timeout" THEN TimeoutReady ELSE TimeoutOff
  /\ store = IF p = "store" THEN StoreStart ELSE StoreOff
  /\ flood = IF p = "flood" THEN FloodStart ELSE FloodOff
  /\ rq = IF p = "queue" THEN QueueStart ELSE QueueOff
  /\ adm = IF p = "admin" THEN AdminIdle ELSE AdminOff
  /\ menu = IF p = "menu" THEN MenuStart ELSE MenuOff
  /\ reg = IF p = "reg" THEN RegStart ELSE RegOff
  /\ conc = IF p = "conc" THEN ConcStart ELSE ConcOff
  /\ outage = IF p = "outage" THEN OutageStart ELSE OutageOff
  /\ lim = IF p = "limiter" THEN LimStart ELSE LimOff
  /\ IF p = "ban"
       THEN ban \in {BanStart(NoBan), BanStart(BanRecord(TRUE, 1)),
                     BanStart(BanRecord(FALSE, 0))}
       ELSE ban = BanOff
  /\ cb = IF p = "breaker" THEN CbStart ELSE CbOff
  /\ IF p = "retry" THEN wr \in RetryStarts ELSE wr = RetryOff
  /\ bc = IF p = "broadcast" THEN BcStart ELSE BcOff
  /\ IF p = "bucket" THEN bucket \in {BucketStart(0), BucketStart(GlobalCapacity)}
     ELSE bucket = BucketOff
  /\ IF p = "botjs" THEN botjs \in {BotJsStart(o) : o \in HandlerOrders}
     ELSE botjs = BotJsOff

WizardInit == StartOf("wizard")

WizardNext ==
  \/ \E u \in Users, v \in WizardInputs : WizardReceive(u, v)
  \/ HandleInputBegin
  \/ WizardStart
  \/ HandleInputEnd

SpecWizard == WizardInit /\ [][WizardNext]_vars

FsmInit == StartOf("fsm")

FsmNext ==
  \/ \E u \in Users, v \in FsmInputs : FsmReceive(u, v)
  \/ FsmProcess
  \/ FsmResult

SpecFSM == FsmInit /\ [][FsmNext]_vars

\* Either conversation program: the order wizard or the registration FSM.
ConversationInit == WizardInit \/ FsmInit

ConversationNext == WizardNext \/ FsmNext

SpecConversation == ConversationInit /\ [][ConversationNext]_vars

WebhookInit == StartOf("webhook")

SpecWebhook == WebhookInit /\ [][WebhookNext]_vars

PollInit == StartOf("poller")

SpecPoll == PollInit /\ [][PollNext]_vars

\* The loop runs on: the event loop resumes each of its awaits.  Whether a
\* request fails is up to the network, not to the loop.
SpecPollFair ==
  /\ SpecPoll
  /\ WF_vars(\E ok \in BOOLEAN : PollFetch(ok))
  /\ WF_vars(\E raises \in BOOLEAN : PollProcess(raises))
  /\ WF_vars(PollWake)

TimeoutInit == StartOf("timeout")

SpecTimeout == TimeoutInit /\ [][TimeoutNext]_vars

StoreInit == StartOf("store")

SpecStore == StoreInit /\ [][StoreNext]_vars

\* Either session store: the in-memory Map or the manager over Redis.
SessionStoresInit == TimeoutInit \/ StoreInit

SessionStoresNext == TimeoutNext \/ StoreNext

SpecSessionStores == SessionStoresInit /\ [][SessionStoresNext]_vars

FloodInit == StartOf("flood")

SpecFlood == FloodInit /\ [][FloodNext]_vars

QueueInit == StartOf("queue")

SpecQueue == QueueInit /\ [][QueueNext]_vars

\* The retry queue with one chat and with sends that succeed or fail, time
\* not stopping while a timer is set; every fn() settles, every timer fires.
QueueFairNext ==
  \/ Elapse
  \/ ElapseToTimer
  \/ QueueAdd("A")
  \/ \E answer \in {"ok", "error"} : QueueSettle(answer)
  \/ \E id \in 1..MaxQueued : QueueTimer(id)

SpecQueueFair ==
  /\ QueueInit
  /\ [][QueueFairNext]_vars
  /\ WF_vars(Elapse \/ ElapseToTimer)
  /\ WF_vars(\E answer \in {"ok", "error"} : QueueSettle(answer))
  /\ WF_vars(\E id \in 1..MaxQueued : QueueTimer(id))

\* Either way of sending under flood control.
DeliveryInit == FloodInit \/ QueueInit

DeliveryNext == FloodNext \/ QueueNext

SpecDelivery == DeliveryInit /\ [][DeliveryNext]_vars

AdminInit == StartOf("admin")

SpecAdmin == AdminInit /\ [][AdminNext]_vars

MenuInit == StartOf("menu")

BotJsInit == StartOf("botjs")

\* The commands of the bot: the menus by scope, and the handlers of bot.js
CommandsInit == MenuInit \/ BotJsInit

CommandsNext == MenuNext \/ BotJsNext

SpecCommands == CommandsInit /\ [][CommandsNext]_vars

RegInit == StartOf("reg")

SpecRegister == RegInit /\ [][RegNext]_vars

ConcInit == StartOf("conc")

SpecConcurrent == ConcInit /\ [][ConcNext]_vars

OutageInit == StartOf("outage")

SpecOutage == OutageInit /\ [][OutageNext]_vars

BucketInit == StartOf("bucket")

SpecBucket == BucketInit /\ [][BucketNext]_vars

\* The continuation of an await runs once the promise it waits for settles:
\* a handler under way is not suspended for ever
SpecConcurrentFair ==
  /\ SpecConcurrent
  /\ \A h \in Instances : WF_vars(ConcProcess(h)) /\ WF_vars(ConcSave(h))

DedupInit == StartOf("dedup")

SpecDedup == DedupInit /\ [][DedupNext]_vars

LimInit == StartOf("limiter")

SpecLim == LimInit /\ [][LimNext]_vars

BanInit == StartOf("ban")

SpecBan == BanInit /\ [][BanNext]_vars

CbInit == StartOf("breaker")

SpecCb == CbInit /\ [][CbNext]_vars

RetryInit == StartOf("retry")

SpecRetry == RetryInit /\ [][RetryNext]_vars

\* Every call of fn settles and every sleep ends
SpecRetryFair ==
  /\ SpecRetry
  /\ WF_vars(RetryReturn \/ \E error \in Errors : RetryCatch(error))
  /\ WF_vars(RetryWake)

BcInit == StartOf("broadcast")

SpecBc == BcInit /\ [][BcNext]_vars

(***************************************************************************)
(* Properties.                                                             *)
(***************************************************************************)
ErrorMessage(text) == Message("error", text, VUndef, EmptyData)

C3_CancelAlwaysResets ==
  [][(/\ fsm.msg = VStr(T_cancel)
      /\ fsm.pc \in {"process", "result"}
      /\ fsm'.pc = "idle"
      /\ GetSession(sessions, fsm.user, now).state # "idle")
       => /\ sessions'[fsm.user].state = "idle"
          /\ sessions'[fsm.user].data = EmptyData]_vars

\* The session's wizard after the step, and before it
WizardAfter == sessions'[wz.user].wizard

WizardBefore == sessions[wz.user].wizard

\* handleInput finishes, for a text that does not itself start the wizard,
\* with the session at step k and the input accepted
AcceptsAt(k) ==
  /\ wz.pc = "resume"
  /\ wz'.pc = "idle"
  /\ ~MatchesOrder(wz.msg)
  /\ wz.step = k
  /\ wz.validation = "true"

\* The first three moves of the order scenario: /order from idle starts the
\* wizard at the product step and sends the product prompt; a product name
\* gives the quantity step with data = {product}; a rejected quantity
\* re-prompts with the session unchanged.
OrderScenarioStart ==
  /\ (wz.pc = "onText" /\ ~wz.pending /\ ~GetSession(sessions, wz.user, now).wizard.present)
       => /\ WizardAfter = [present |-> TRUE, name |-> "order", step |-> 0,
                            data |-> EmptyData]
          /\ sent' = <<Prompt(0, EmptyData)>>
  /\ AcceptsAt(0)
       => /\ WizardAfter.present /\ WizardAfter.step = 1
          /\ WizardAfter.data = SetField(EmptyData, "product", wz.msg)
          /\ sent' = <<Message("prompt", "How many ... do you want?", wz.msg,
                               EmptyData)>>
  /\ (wz.pc = "resume" /\ wz'.pc = "idle" /\ ~MatchesOrder(wz.msg) /\ wz.step = 1
        /\ wz.validation \notin {"true", "throw"})
       => /\ sessions' = sessions
          /\ sent' = <<ErrorMessage(wz.validation)>>

\* C6 (as claimed): ... and a valid quantity, with the product collected, is
\* the last step: the wizard is gone from the session (idle) and exactly one
\* completion message is sent, with the product and the integer quantity.
C6_QuantityCompletesOrder ==
  [][/\ OrderScenarioStart
     /\ (AcceptsAt(1) /\ DOMAIN WizardBefore.data = {"product"})
          => /\ ~WizardAfter.present
             /\ sent' = <<OrderPlaced(SetField(WizardBefore.data, "quantity",
                                               VInt(ParseInt(wz.msg).n)))>>]_vars

\* C6 (amended): ... a valid quantity, with the product collected, gives the
\* address step with the product and the integer quantity (1..100) collected
\* and the address prompt; with both collected, an address of
\* more than 10 characters is the last step: the wizard is gone from the
\* session and exactly one completion message is sent, with the product, the
\* integer quantity and the address.
C6_OrderScenario ==
  [][/\ OrderScenarioStart
     /\ (AcceptsAt(1) /\ DOMAIN WizardBefore.data = {"product"})
          => /\ WizardAfter.present /\ WizardAfter.step = 2
             /\ WizardAfter.data = SetField(WizardBefore.data, "quantity",
                                            VInt(ParseInt(wz.msg).n))
             /\ DOMAIN WizardAfter.data = {"product", "quantity"}
             /\ ParseInt(wz.msg).n \in 1..MaxItems
             /\ sent' = <<Prompt(2, EmptyData)>>
     /\ (AcceptsAt(2) /\ DOMAIN WizardBefore.data = {"product", "quantity"})
          => /\ Len(wz.msg.s) > MinAddressLength
             /\ ~WizardAfter.present
             /\ sent' = <<OrderPlaced(SetField(WizardBefore.data, "address", wz.msg))>>
             /\ DOMAIN sent'[1].data = {"product", "quantity", "address"}
             /\ sent'[1].data["quantity"].kind = "int"]_vars

\* C6 witness: the order is placed: Widget, 3, delivered to the street address
C6_Witness ==
  /\ wz.pc = "idle"
  /\ wz.msg = VStr(T_street)
  /\ wz.user \in DOMAIN sessions
  /\ ~sessions[wz.user].wizard.present
  /\ sent = <<OrderPlaced([product |-> VStr(T_widget), quantity |-> VInt(3),
                           address |-> VStr(T_street)])>>

\* C1 (as claimed): when the handler is given an update it has already
\* answered 200 for, it makes no Bot API call (an empty action list).
C1_DuplicateIsNoOp ==
  [][(/\ webhook.pc = "handling"
      /\ webhook.method = "POST"
      /\ webhook.id \in webhook.acked)
       => sent' = <<>>]_vars

\* processUpdate raises in the polling loop's current round
PollThrows ==
  /\ poller.pc = "process"
  /\ poller'.pc = "sleep"

\* The update the for loop is at
CurrentUpdate == poller.batch[poller.i]

\* C7 (as claimed): when processUpdate raises, the update is not recorded as
\* processed and exactly one failure message goes to the user.
C7_ThrowSendsFailureMessage ==
  [][PollThrows
       => /\ poller'.offset <= CurrentUpdate
          /\ Len(sent') = 1]_vars

\* C7 (amended): when processUpdate raises, the offset stays where it is, at
\* or below the update, no message is sent, and the exception ends in the
\* catch (the loop sleeps and goes on); every update for which processUpdate
\* has not returned stays with the server, unconfirmed and at or above the
\* offset, and the next batch getUpdates returns holds it again.
C7_ThrowLeavesUpdateForRedelivery ==
  /\ [][PollThrows
          => /\ poller'.offset = poller.offset
             /\ poller'.offset <= CurrentUpdate
             /\ sent' = <<>>
             /\ poller'.pc = "sleep"]_vars
  /\ [](\A id \in DOMAIN poller.updates :
          ~poller.updates[id].done
            => id >= poller.offset /\ id \notin poller.confirmed)
  /\ [][(poller.pc = "fetch" /\ poller'.pc = "process")
          => \A id \in DOMAIN poller.updates :
               ~poller.updates[id].done
                 => \E k \in 1..Len(poller'.batch) : poller'.batch[k] = id]_vars

\* C7 witness: processUpdate raised for an update, and the update was fetched
\* and processed again
C7_Witness ==
  \E id \in DOMAIN poller.updates :
    /\ poller.updates[id].calls = 2
    /\ poller.updates[id].done
    /\ poller.throws = 1

InLog(id, log) == \E k \in 1..Len(log) : log[k] = id

\* C8 (as claimed): a delivered update that was never processed is processed,
\* also when its id is below an id already processed.
C8_LateUpdateIsProcessed ==
  [][~InLog(dedup'.last, dedup.log) => InLog(dedup'.last, dedup'.log)]_vars

\* C8 (amended): the filter is a watermark.  lastProcessed is the highest id
\* let through; a delivered update is let through exactly when its id is
\* above lastProcessed and is ignored otherwise, whether or not it was ever
\* processed itself; so the ids let through increase strictly and none is
\* processed twice.
C8_WatermarkFilter ==
  /\ [](/\ \A k \in 1..Len(dedup.log) : dedup.log[k] <= dedup.lastProcessed
        /\ dedup.log # <<>> => dedup.log[Len(dedup.log)] = dedup.lastProcessed
        /\ \A j, k \in 1..Len(dedup.log) : j < k => dedup.log[j] < dedup.log[k])
  /\ [][/\ dedup'.last > dedup.lastProcessed
             => /\ dedup'.log = Append(dedup.log, dedup'.last)
                /\ ~dedup'.dropped
        /\ dedup'.last <= dedup.lastProcessed
             => /\ dedup'.log = dedup.log
                /\ dedup'.lastProcessed = dedup.lastProcessed
                /\ dedup'.dropped]_vars

\* C8 witness: update 1 arrives after update 2 was processed and is ignored,
\* though it was never processed
C8_Witness ==
  /\ dedup.last = 1
  /\ dedup.dropped
  /\ ~InLog(1, dedup.log)
  /\ InLog(2, dedup.log)

C9_AbsentKeyGivesIdle ==
  /\ [](\A u \in Users :
          /\ (tmo.pc = "ready" /\ u \notin DOMAIN sessions)
             => LET first == GetSession(sessions, u, now)
                    after == SessionsAfterGet(sessions, u, now)
                IN /\ first.state = "idle"
                   /\ first.data = EmptyData
                   /\ u \in DOMAIN after
                   /\ \A t \in now..MaxTime : GetSession(after, u, t) = first
          /\ (store.pc = "ready" /\ u \notin DOMAIN store.keys)
             => /\ RedisGetSession(store.keys, u, now).state = "idle"
                /\ RedisGetSession(store.keys, u, now).data = EmptyData)
  /\ [][\A c \in Callers :
          (store'.callers[c].pc = "read" /\ store'.callers[c] # store.callers[c])
          => /\ store'.keys = store.keys
             /\ store'.callers[c].user \notin DOMAIN store.keys
                => /\ store'.callers[c].session.state = "idle"
                   /\ store'.callers[c].session.data = EmptyData
             /\ store'.callers[c].gets = 2
                => store'.callers[c].session = store.callers[c].session]_vars

\* A key was written and deleted again, and a caller has twice in a row read
\* the absent key with no write in between.
C9_Witness ==
  \E c \in Callers :
    /\ store.callers[c].pc = "read"
    /\ store.callers[c].gets = 2
    /\ store.callers[c].user \notin DOMAIN store.keys
    /\ store.writes > 0
    /\ store.callers[c].readAt = store.writes
    /\ store.callers[c].session = DefaultSession

\* The step is the handling of one message by the timeout handler
TimeoutHandles == tmo'.turn # tmo.turn

\* The session stored for the user the message is from has been idle for
\* longer than the window
StoredExpired ==
  /\ tmo'.user \in DOMAIN sessions
  /\ now - sessions[tmo'.user].lastActivity > SessionTimeout

\* C10 as the claim states it: the message that finds the stored session older
\* than the window is handled, from state idle with empty data.
C10_ExpiredAccessHandledFromIdle ==
  [][(TimeoutHandles /\ StoredExpired)
     => /\ tmo'.processed
        /\ tmo'.found.state = "idle"
        /\ tmo'.found.data = EmptyData]_vars

\* C10 amended: the message that finds the stored session older than the
\* window is not handled: the session is deleted whatever it held, the user
\* gets the expiry notice and nothing else happens; the message after it is
\* handled, from a session with state idle and empty data.  No sweep is needed.
C10_ExpiredAccessResets ==
  [][TimeoutHandles
     => /\ StoredExpired
           => /\ ~tmo'.processed
              /\ tmo'.user \notin DOMAIN sessions'
              /\ sent' = <<ExpiryNotice>>
        /\ (tmo.expired /\ tmo'.user = tmo.user)
           => /\ tmo'.processed
              /\ tmo'.found.state = "idle"
              /\ tmo'.found.data = EmptyData
              /\ tmo'.user \in DOMAIN sessions'
              /\ sent' = <<>>]_vars

\* A session that held a state and data expired, and the message after the
\* one that found it expired has been handled.
C10_Witness ==
  /\ tmo.pc = "ready"
  /\ tmo.afterExpiry
  /\ tmo.processed
  /\ tmo.found.state = "idle"
  /\ tmo.found.data = EmptyData
  /\ now > SessionTimeout

\* No call of execute sleeps before its first try unless its own chat was
\* throttled before
OnlyThrottledChatsWait ==
  \A k \in DOMAIN CallChat :
    flood.calls[k].pc = "waiting" => CallChat[k] \in flood.throttled

\* The retry queue gives an item up only after maxAttempts failures of its own
DroppedOnlyAfterOwnFailures ==
  \A item \in rq.dropped : item.attempts = MaxAttempts

\* C5 as the claim states it: a throttle on A makes no action for another
\* recipient B later than it would have been and drops none: no call for B
\* sleeps on A's wait period, no item for B waits in the queue behind a retry
\* of A's throttled action (without the throttle there is no such retry), and
\* no item is dropped but for its own failures.
C5_ThrottleNeverDelaysOthers ==
  /\ OnlyThrottledChatsWait
  /\ DroppedOnlyAfterOwnFailures
  /\ ~(/\ rq.cur.throttled
       /\ rq.cur.attempts > 0
       /\ \E i \in 1..Len(rq.queue) : rq.queue[i].chat # rq.cur.chat)

\* C5 amended: the pause after a throttle on A delays and drops nothing of B:
\* no call for B sleeps on A's wait period, an item waits in the queue only
\* while an attempt is being sent, never for the timer of an item to retry,
\* and no item is dropped but for its own failures.  (The queue sends one item
\* at a time: an item for B does wait while a retry of A's is being sent.)
C5_PauseNeverDelaysOthers ==
  /\ OnlyThrottledChatsWait
  /\ DroppedOnlyAfterOwnFailures
  /\ rq.queue # <<>> => (rq.cur # NoItem /\ rq.processing)

\* A is in its wait period; a call for B, made during it, is done already.
C5_Witness ==
  /\ "A" \in DOMAIN flood.waitUntil
  /\ now < flood.waitUntil["A"]
  /\ "B" \notin flood.throttled
  /\ \E k \in DOMAIN CallChat :
       /\ CallChat[k] = "B"
       /\ flood.calls[k].othersWaiting
       /\ flood.calls[k].pc = "done"
  /\ \E k \in DOMAIN CallChat :
       /\ CallChat[k] = "A"
       /\ flood.calls[k].pc \in {"waiting", "backoff"}

\* The escape inputs: cancel, back, help
EscapeInputs == {VStr(T_cancel), VStr(T_back), VStr(T_help)}

\* C11: an escape input is handled before the step's validator: the wizard
\* has no validator result for it, the registration FSM does not test it as
\* an email address, and no field of a session's data or of its wizard's data
\* holds it.
C11_EscapeBeforeValidation ==
  /\ wz.msg \in EscapeInputs => wz.validation = ""
  /\ ~(/\ fsm.pc = "result"
       /\ fsm.msg \in EscapeInputs
       /\ fsm.user \in DOMAIN sessions
       /\ sessions[fsm.user].state = "awaiting_email")
  /\ \A u \in DOMAIN sessions :
       /\ \A f \in DOMAIN sessions[u].data : sessions[u].data[f] \notin EscapeInputs
       /\ \A f \in DOMAIN sessions[u].wizard.data :
            sessions[u].wizard.data[f] \notin EscapeInputs

\* The user of the message being dispatched is an admin for registration r:
\* in ADMIN_IDS, or an administrator or the creator of the chat
IsAdminFor(r) ==
  IF r.guard = "adminOnly" THEN adm.user \in AdminIds
  ELSE adm.status \in {"administrator", "creator"}

\* The message was refused for registration r: its handler did not run and
\* its refusal was sent
Forbidden(r) == r.handler \notin adm.invoked /\ \E k \in 1..Len(sent) : sent[k] = Refusal(r)

ClaimedOrder ==
  <<"chat_member", "chat_administrators", "chat", "all_chat_administrators",
    "all_group_chats", "all_private_chats", "default">>

\* The place of a scope in the claimed order
Rank(scope) == CHOOSE k \in 1..Len(ClaimedOrder) : ClaimedOrder[k] = scope

\* The scope applies to the context and, after the calls, lists the command
Defines(calls, scope, command, ctx) ==
  Applies(scope, ctx) /\ \E k \in 1..Len(calls) :
    /\ calls[k].scope = scope
    /\ command \in calls[k].commands
    /\ \A j \in (k + 1)..Len(calls) : calls[j].scope # scope

\* The calls in reverse order
Reversed(calls) == [k \in 1..Len(calls) |-> calls[Len(calls) + 1 - k]]

Registers == reg'.calls = reg.calls + 1

\* C14 as the claim states it: registering for a state that has a handler
\* fails with DuplicateCommand and changes nothing: the first handler stays
\* the one looked up.
C14_DuplicateRegistrationFails ==
  [][(Registers /\ reg'.state \in DOMAIN reg.handlers)
     => /\ reg'.returned = "DuplicateCommand"
        /\ reg'.handlers = reg.handlers
        /\ HandlerFor(reg'.handlers, reg'.state) = reg.first[reg'.state]]_vars

\* C14 amended: registering for a state that has a handler does not fail: on()
\* returns the FSM and the handler given last replaces the one before, the
\* other states keeping theirs; a look-up gives the handler registered last.
C14_LastRegistrationWins ==
  [][/\ Registers
        => /\ reg'.returned = "this"
           /\ DOMAIN reg'.handlers = (DOMAIN reg.handlers) \cup {reg'.state}
           /\ \A x \in DOMAIN reg'.handlers :
                reg'.handlers[x] = IF x = reg'.state THEN reg'.handler
                                   ELSE reg.handlers[x]
     /\ (~Registers /\ reg'.state \in DOMAIN reg.handlers)
        => reg'.looked = reg.handlers[reg'.state]]_vars

\* A state was registered twice, with different handlers: the second is the
\* one looked up.
C14_Witness ==
  /\ reg.calls = 2
  /\ reg.returned = "this"
  /\ "idle" \in DOMAIN reg.handlers
  /\ reg.first["idle"] = "h1"
  /\ reg.state = "idle"
  /\ reg.looked = "h2"

\* Handler h ends its handling in this step with a result to persist
Persists(h) ==
  /\ conc.inst[h].pc = "result"
  /\ conc'.inst[h].pc = "idle"
  /\ conc.inst[h].result.defined

\* The session was written by another handler since h read it: the case in
\* which a store with versions answers Conflict
WrittenSinceRead(h) == conc.inst[h].readAt # conc.writes

\* The messages sent so far by an attempt
DeliveredBy(attempt) ==
  {k \in 1..Len(conc.delivered) : conc.delivered[k].attempt = attempt}

C16_NoLostUpdate ==
  \A c, d \in Callers :
    (/\ c # d
     /\ store.callers[c].pc = "idle"
     /\ store.callers[d].pc = "idle"
     /\ store.callers[c].outcome = "success"
     /\ store.callers[d].outcome = "success"
     /\ store.callers[c].user = store.callers[d].user
     /\ store.callers[c].readAt = store.callers[d].readAt
     /\ store.writes = store.callers[c].readAt + 2)
    => LET base == store.callers[c].read
           uc == store.callers[c].updates
           ud == store.callers[d].updates
       IN /\ store.callers[c].user \in DOMAIN store.keys
          /\ store.keys[store.callers[c].user]
               \in {Stringify(AssignUpdates(AssignUpdates(base, uc), ud)),
                    Stringify(AssignUpdates(AssignUpdates(base, ud), uc))}

GetStep ==
  /\ outage.h.pc = "idle"
  /\ outage'.h # outage.h

Routable(u) == u.message \/ (u.callback /\ u.cbMessage)

\* C19: an update with no chat to route on (neither a message nor a callback
\* query with its message) is dropped without raising: the handler makes no
\* Bot API call and answers 200.
C19_UnroutableUpdateIsDropped ==
  [][(/\ webhook.pc = "handling"
      /\ webhook.method = "POST"
      /\ ~Routable(Updates[webhook.id]))
       => /\ webhook'.status = 200
          /\ sent' = <<>>]_vars

\* The messages sent to the chats given in the second that starts at tick t
SentInSecond(t, chats) ==
  {k \in 1..MaxSends :
     /\ bucket.calls[k].pc = "sent"
     /\ bucket.calls[k].chat \in chats
     /\ bucket.calls[k].sentAt \in t..(t + TicksPerSecond - 1)}

\* C20: a token is only ever taken from a bucket that holds one (no bucket
\* is overdrawn), and in any one second at most GlobalRefillRate messages are
\* sent overall and at most ChatRefillRate to one chat.
C20_SendsWithinBudgets ==
  bucket.pc = "ready"
  => /\ bucket.global.tokens >= 0
     /\ \A chat \in DOMAIN bucket.chatLimiters : bucket.chatLimiters[chat].tokens >= 0
     /\ \A t \in 0..MaxTicks :
          /\ Cardinality(SentInSecond(t, Chats)) + (IF t = 0 THEN bucket.burst ELSE 0)
               <= GlobalRefillRate
          /\ \A chat \in Chats : Cardinality(SentInSecond(t, {chat})) <= ChatRefillRate

\* fn is called for call k in this step: a send to its chat is attempted
SendAttempted(k) ==
  /\ flood.calls[k].pc \notin {"sending", "retrying"}
  /\ flood'.calls[k].pc \in {"sending", "retrying"}

\* The chat of call k is in the wait period a 429 set for it
InWaitPeriod(k) ==
  /\ WaitKey(CallChat[k]) \in DOMAIN flood.waitUntil
  /\ now < flood.waitUntil[WaitKey(CallChat[k])]

\* C21: no send to a chat is attempted while the wait period that a 429 set
\* for the chat runs, and no call is given up (thrown by execute) because a
\* 429 answered it.
C21_ThrottledChatWaitsAndKeepsItsAction ==
  [][\A k \in DOMAIN CallChat :
       /\ SendAttempted(k) => ~InWaitPeriod(k)
       /\ flood'.calls[k].pc = "thrown" => flood'.calls[k].last # "429"]_vars

\* The items that wait to be sent: in the queue, or held by a retry timer
PendingItems ==
  {rq.queue[i] : i \in 1..Len(rq.queue)} \cup {tm.item : tm \in rq.timers}

\* C22 as the claim states it: the item being sent is the earliest enqueued
\* of the items for its chat that are still pending, retried ones included.
C22_SentInEnqueueOrder ==
  rq.cur # NoItem
  => \A p \in PendingItems : p.chat = rq.cur.chat => rq.cur.id < p.id

\* C22 amended: the first attempts for one chat are made in the order of
\* enqueueing (an item sent for the first time is earlier than every pending
\* item for its chat that was never sent, and only failed items wait on a
\* timer), while a failed item is queued again behind the items that arrived
\* meanwhile: the item being sent may be later than a pending failed one.
C22_FirstAttemptsInEnqueueOrder ==
  /\ \A tm \in rq.timers : tm.item.attempts > 0
  /\ \A i, j \in 1..Len(rq.queue) :
       (i < j /\ rq.queue[i].attempts = 0 /\ rq.queue[j].attempts = 0
        /\ rq.queue[i].chat = rq.queue[j].chat)
       => rq.queue[i].id < rq.queue[j].id
  /\ rq.cur # NoItem
     => \A p \in PendingItems :
          (p.chat = rq.cur.chat /\ p.attempts = 0) => rq.cur.id < p.id

\* The second item for chat A is being sent for the first time while the
\* first, which failed, waits on its retry timer.
C22_Witness ==
  /\ rq.cur # NoItem
  /\ rq.cur.id = 2
  /\ rq.cur.attempts = 0
  /\ \E tm \in rq.timers :
       tm.item.id = 1 /\ tm.item.chat = rq.cur.chat /\ tm.item.attempts = 1

\* C23: an item whose send was answered 403 (bot blocked, recipient gone) is
\* given up and reported at that answer: it is in no queue and on no retry
\* timer afterwards, and it is never sent again.
C23_PermanentFailureIsNotRetried ==
  /\ \A p \in PendingItems : ~p.refused
  /\ ~rq.cur.refused

IsSlashText(text) == text.kind = "str" /\ Len(text.s) > 0 /\ text.s[1] = "/"

IsEchoCommand(text) ==
  /\ text.kind = "str"
  /\ Len(text.s) >= 6
  /\ \A i \in 1..6 : text.s[i] = <<"/", "e", "c", "h", "o", " ">>[i]

IsPlainText(text) == text.kind = "str" /\ Len(text.s) > 0 /\ text.s[1] # "/"

\* The rest of an echo command's text after '/echo '
AfterEcho(text) == [i \in 1..(Len(text.s) - 6) |-> text.s[i + 6]]

NoCallThrew == sent' = HandlerCalls(Updates[webhook.id])

\* C26: a POST is answered 200 exactly when no Bot API call made for its
\* update threw and 500 when one did; an update answered 500 after a first
\* call was made can be delivered again, and that call is then made again.
C26_AnswerTellsWhetherACallThrew ==
  [][(webhook.pc = "handling" /\ webhook.method = "POST")
       => /\ webhook'.status = 200 <=> NoCallThrew
          /\ webhook'.status = 500 <=> ~NoCallThrew]_vars

\* The user of the message being handled has no wizard under way
NoWizardUnderWay ==
  wz.user \in DOMAIN sessions => ~sessions[wz.user].wizard.present

\* C27: Wizard.start leaves the session with the order wizard at its first
\* step and with empty data, whatever an earlier run had collected, and sends
\* the first step's prompt; started with no wizard under way, that prompt is
\* the only message sent and nothing else is done with the message.
C27_StartResetsTheWizard ==
  [][wz.pc = "onText"
     => /\ sessions'[wz.user].wizard
             = [present |-> TRUE, name |-> "order", step |-> 0, data |-> EmptyData]
        /\ sent' = Append(sent, Prompt(0, EmptyData))
        /\ NoWizardUnderWay
           => /\ sent' = <<Prompt(0, EmptyData)>>
              /\ wz'.pc = "idle"]_vars

\* /order was handled for a user and the wizard stands at its first step with
\* no data, the first prompt being the one message sent.
C27_Witness ==
  /\ wz.pc = "idle"
  /\ wz.msg = VStr(T_order)
  /\ wz.user \in DOMAIN sessions
  /\ sessions[wz.user].wizard
       = [present |-> TRUE, name |-> "order", step |-> 0, data |-> EmptyData]
  /\ sent = <<Prompt(0, EmptyData)>>


\* The fields orderWizard collects
OrderFields == {StepField(k) : k \in 0..(Len(OrderSteps) - 1)}

\* handleInput finishes with the input accepted by step k's validator
AcceptedAt(k) ==
  /\ wz.pc = "resume"
  /\ wz'.pc = "idle"
  /\ wz.step = k
  /\ InputAccepted(wz.validation)

\* What C28 says of an accepted input, for the inputs in the set `texts`
AcceptedInputAdvances(texts) ==
  /\ \A k \in 0..(Len(OrderSteps) - 2) :
       (AcceptedAt(k) /\ wz.msg \in texts)
         => /\ WizardAfter.present
            /\ WizardAfter.step = k + 1
            /\ GetField(WizardAfter.data, StepField(k)) = Transform(k, wz.msg)
            /\ sent' = Append(sent, Prompt(k + 1, WizardAfter.data))
  /\ (AcceptedAt(Len(OrderSteps) - 1) /\ wz.msg \in texts)
       => /\ ~WizardAfter.present
          /\ sent' = Append(sent, OrderPlaced(SetField(WizardBefore.data,
                                    StepField(wz.step), Transform(wz.step, wz.msg))))
          /\ DOMAIN sent'[Len(sent')].data = OrderFields
          /\ \A i \in 1..Len(sent) : sent[i].kind # "complete"
  /\ (wz.pc = "handleInput" /\ ~GetSession(sessions, wz.user, now).wizard.present)
       => /\ ~wz'.pending
          /\ wz'.pc \in {"idle", "onText"}
          /\ UNCHANGED sent

\* C28: an input that step k's validator accepts is stored, transformed, under
\* step k's field, and the wizard moves to step k+1 and sends its prompt; at
\* the last step the wizard is removed from the session and the completion
\* callback runs exactly once, with all the fields; with no wizard in the
\* session handleInput handles nothing.
C28_AcceptedInputAdvances ==
  [][AcceptedInputAdvances(WizardInputs)]_vars

\* C29: when the handling of a message that starts the wizard is over, the
\* wizard is at its first step with nothing collected: the message was not
\* taken as an answer, whether handleInput or start finished last.
C29_StartingMessageIsNotAnAnswer ==
  [][(MatchesOrder(wz.msg) /\ wz.pc \in {"onText", "resume"} /\ wz'.pc = "idle")
       => WizardAfter = [present |-> TRUE, name |-> "order", step |-> 0,
                         data |-> EmptyData]]_vars


\* process ends for a message on which the state's handler makes no
\* transition: the state has no handler, or the state is idle and the text is
\* not /register
EndsWithoutTransition ==
  /\ fsm'.pc = "idle"
  /\ \/ fsm.pc = "process" /\ GetSession(sessions, fsm.user, now).state \notin HandledStates
     \/ /\ fsm.pc = "result"
        /\ sessions[fsm.user].state = "idle"
        /\ fsm.msg # VStr(T_register)

\* C30: ConversationFSM.process, on a message for which the state's handler
\* makes no transition, leaves session.state and session.data as they were
\* and completes without raising.
C30_NoTransitionLeavesSession ==
  [][EndsWithoutTransition
       => /\ sessions'[fsm.user].state = GetSession(sessions, fsm.user, now).state
          /\ sessions'[fsm.user].data = GetSession(sessions, fsm.user, now).data
          /\ ~fsm'.threw]_vars


\* The for loop calls processUpdate for the update it is at
ProcessUpdateCalled ==
  /\ poller.pc = "process"
  /\ poller'.pc = "sleep" \/ poller'.i = poller.i + 1

EveryUpdateProcessed ==
  \A id \in 1..MaxUpdates :
    (id \in DOMAIN poller.updates) ~> (id \in DOMAIN poller.updates /\ poller.updates[id].done)

\* C32 (as claimed): as long as getUpdates keeps returning updates, every
\* update the server holds is processed in the end, whether or not
\* processUpdate throws for an update before it.
C32_ThrowingUpdateDoesNotBlock ==
  []<>(poller.pc = "process") => EveryUpdateProcessed

\* C32 (amended): every update the server holds is processed in the end unless
\* errors are caught again and again; until processUpdate has returned for an
\* update, it is never called for an update after it.
C32_ProcessedUnlessErrorsPersist ==
  /\ <>[](poller.pc # "sleep") => EveryUpdateProcessed
  /\ [](\A id, later \in DOMAIN poller.updates :
          (id < later /\ ~poller.updates[id].done) => poller.updates[later].calls = 0)

\* C32 witness: errors were caught, update 1 was tried again and processed,
\* and then the update after it was processed
C32_Witness ==
  /\ {1, 2} \subseteq DOMAIN poller.updates
  /\ poller.updates[1].calls = MaxThrows
  /\ poller.throws = MaxThrows
  /\ poller.updates[1].done
  /\ poller.updates[2].done


\* The requests admitted with a time in the window of length LimWindow from t
RECURSIVE AdmittedIn(_, _, _)
AdmittedIn(allowed, t, len) ==
  IF len = 0 \/ t \notin LimTimes THEN 0
  ELSE allowed[t] + AdmittedIn(allowed, t + 1, len - 1)

\* rateLimit admits at most LimLimit requests in any window
RateLimitKeepsTheLimit ==
  \A t \in LimTimes : AdmittedIn(lim.allowed.mem, t, LimWindow) <= LimLimit

\* C33: for the key, rateLimit and slidingWindowLimit each admit at most
\* `limit` requests within any time window of length `window`, also when
\* calls interleave between the count and the recording of the request.
C33_AtMostLimitPerWindow ==
  \A t \in LimTimes :
    /\ AdmittedIn(lim.allowed.mem, t, LimWindow) <= LimLimit
    /\ AdmittedIn(lim.allowed.zset, t, LimWindow) <= LimLimit


\* isBanned returns r
IsBannedReturns(r) == ban'.returns # ban.returns /\ ban'.result = r

\* While a ban without a duration is in force, from the call of isBanned to
\* its return, isBanned does not return false
C34_PermanentBanStays ==
  [][IsBannedReturns(FALSE)
       => ~(/\ ban.inForce.present
            /\ ~ban.inForce.timed
            /\ ban.chk.pc # "idle" => ban.chk.epoch = ban.epoch)]_vars

\* C34: a user banned with a duration is not reported as banned once the
\* duration has elapsed; a user banned without one is reported as banned
\* until unbanUser is called.
C34_BanLastsAsLongAsOrdered ==
  [][/\ IsBannedReturns(TRUE) => ~Expired(ban.inForce, ban.clock)
     /\ IsBannedReturns(FALSE)
          => ~(/\ ban.inForce.present
               /\ ~ban.inForce.timed
               /\ ban.chk.pc # "idle" => ban.chk.epoch = ban.epoch)]_vars


\* execute is called by c / fn returns for c
ExecuteCalled(c) == cb'.executes = cb.executes + 1 /\ cb'.caller = c

FnReturned(c) == cb.calls[c].pc = "running" /\ cb'.calls[c].outcome = "ok"

\* C35: while the breaker is OPEN and resetTimeout has not elapsed since the
\* last failure, execute rejects and does not invoke the wrapped function;
\* the breaker is OPEN only after failureThreshold failures with no success
\* in between; any success returns it to CLOSED with no failures counted.
C35_BreakerOpensAndCloses ==
  /\ [][\A c \in CbCallers :
          /\ (ExecuteCalled(c) /\ cb.state = "OPEN"
                /\ cb.clock - cb.lastFailure <= ResetTimeout)
               => /\ cb'.calls[c] = [pc |-> "idle", outcome |-> "rejected"]
                  /\ cb'.invoked = cb.invoked
                  /\ cb'.state = "OPEN"
          /\ FnReturned(c) => cb'.state = "CLOSED" /\ cb'.failures = 0]_vars
  /\ [](cb.state = "OPEN" => cb.streak >= FailureThreshold)
  /\ [](cb.failures = cb.streak)

\* C35 witness: the breaker opened after two failures, rejected a call, and
\* a call invoked before it opened has returned and closed it
C35_Witness ==
  /\ cb.state = "CLOSED"
  /\ cb.failures = 0
  /\ cb.calls["a"].outcome = "rejected"
  /\ cb.calls["b"].outcome = "ok"
  /\ cb.executes >= FailureThreshold + 2


\* The items of the retry queue, wherever they are
AllItems ==
  {rq.queue[i] : i \in 1..Len(rq.queue)} \cup {tm.item : tm \in rq.timers}
    \cup rq.dropped \cup (IF rq.cur # NoItem THEN {rq.cur} ELSE {})

\* Item id is done with: it was sent, or it failed maxAttempts times
Finished(id) == id \in rq.delivered \/ \E item \in rq.dropped : item.id = id

\* C36: every item added to the RetryQueue is attempted at least once and at
\* most maxAttempts times: it ends sent or given up after maxAttempts
\* failures, also when it was queued again by its timer while the loop runs or
\* after the loop ended; at most one process loop runs at any time.
C36_EveryItemIsFinished ==
  /\ \A id \in 1..MaxQueued : (rq.added >= id) ~> Finished(id)
  /\ [](/\ \A item \in AllItems : item.attempts <= MaxAttempts
        /\ \A item \in rq.dropped : item.attempts = MaxAttempts
        /\ rq.cur # NoItem => rq.cur.attempts < MaxAttempts
        /\ rq.loops <= 1
        /\ rq.processing <=> rq.loops = 1)
  /\ [][\A id \in 1..MaxQueued :
          (id \in rq'.delivered /\ id \notin rq.delivered)
             => rq.cur.id = id /\ rq.cur.attempts < MaxAttempts]_vars

\* C36 witness: item 1 failed, was queued again by its timer after the loop
\* had ended, and was sent at its last attempt; item 2 was given up
C36_Witness ==
  /\ 1 \in rq.delivered
  /\ \E item \in rq.dropped : item.id = 2
  /\ rq.added = 2
  /\ ~rq.processing
  /\ now > MaxClock


\* How the last call of fn ended
LastSettled == wr.settled[Len(wr.settled)]

\* C37: withRetry and withExponentialBackoff call fn at most maxRetries + 1
\* times and terminate; they return the first successful result, throw at
\* once an error that is not to be retried, and otherwise throw the last
\* error after the final attempt.
C37_RetriesAreBoundedAndEnd ==
  /\ <>(wr.pc = "done")
  /\ [](/\ Len(wr.settled) <= wr.maxRetries + 1
        /\ \A i \in 1..(Len(wr.settled) - 1) :
             wr.settled[i] # "ok" /\ ShouldRetry(wr.policy, wr.settled[i])
        /\ wr.pc = "done"
             => /\ wr.outcome = "returned" <=> LastSettled = "ok"
                /\ wr.outcome = "threw"
                     => /\ wr.thrown = LastSettled
                        /\ \/ ~ShouldRetry(wr.policy, wr.thrown)
                           \/ Len(wr.settled) = wr.maxRetries + 1)

\* C37 witness: withExponentialBackoff with maxRetries 2 called fn three
\* times and threw the last error, a retryable one
C37_Witness ==
  /\ wr.pc = "done"
  /\ wr.fun = "withExponentialBackoff"
  /\ wr.maxRetries = 2
  /\ wr.settled = <<"500", "ECONNRESET", "429">>
  /\ wr.outcome = "threw"
  /\ wr.thrown = "429"


\* The token buckets: the global one and the limiter of each chat
Buckets ==
  {bucket.global} \cup {bucket.chatLimiters[chat] : chat \in DOMAIN bucket.chatLimiters}

\* C38: after any interleaving of take() calls the token count of a
\* TokenBucket is between 0 and its capacity; two callers that both waited
\* for a refill do not drive it below zero.
C38_TokensWithinBucket ==
  \A b \in Buckets : 0 <= b.tokens /\ b.tokens <= b.capacity


\* C39: for every message text the polling bot (bot.js) sends the same
\* replies, in the same order, as the webhook handler sends for a message
\* update with that text.
C39_SameRepliesInBothModes ==
  (botjs.pc = "done" /\ botjs.order = BotJsOrder)
    => Replies(botjs.ran, botjs.msg) = MessageCalls(botjs.msg)


\* C40: in a broadcast each target user is counted at most once, in sent or
\* in failed, so sent + failed never exceeds totalUsers, also when a failed
\* send job is run again by the queue.
C40_EachUserCountedOnce ==
  bc.record.present
    => /\ \A u \in BcUsers : bc.jobs[u].counted <= 1
       /\ bc.record.sent + bc.record.failed <= bc.record.totalUsers

====
